---- MODULE Spec2Model ----
(***************************************************************************)
(* Chunking and RAG enrichment of a transcript                             *)
(* (direct_transcriber/output/chunking.py, rag_optimizer.py).              *)
(*                                                                         *)
(* A str is a sequence of one-character strings; character offsets are     *)
(* Python's (0-based), list positions inside the model are TLA+'s          *)
(* (1-based) and are turned into Python indices where the code stores      *)
(* them (segment_indices).  A float is an exact rational [n, d], d > 0.    *)
(* Optional[str] is << >> for None and <<s>> for the str s.                *)
(***************************************************************************)
EXTENDS Integers, Sequences, FiniteSets, TLC

---------------------------------------------------------------------------
(* Integers and rationals *)

Min2(a, b) == IF a <= b THEN a ELSE b

Max2(a, b) == IF a >= b THEN a ELSE b

SetMin(S) == CHOOSE x \in S : \A y \in S : x <= y

SetMax(S) == CHOOSE x \in S : \A y \in S : x >= y

Abs(a) == IF a < 0 THEN 0 - a ELSE a

RECURSIVE GCD(_, _)
GCD(a, b) == IF b = 0 THEN a ELSE GCD(b, a % b)

\* the float n/d in lowest terms
Rat(n, d) ==
    LET g == GCD(Abs(n), d)
    IN  [n |-> n \div g, d |-> d \div g]

RatAdd(x, y) == Rat(x.n * y.d + y.n * x.d, x.d * y.d)

RatMul(x, y) == Rat(x.n * y.n, x.d * y.d)

RatLess(x, y) == x.n * y.d < y.n * x.d

RatLeq(x, y) == x.n * y.d <= y.n * x.d

RatMin(x, y) == IF RatLeq(x, y) THEN x ELSE y

---------------------------------------------------------------------------
(* str operations *)

Whitespace == {" ", "\t", "\n", "\r"}

UpperCase ==
    <<"A", "B", "C", "D", "E", "F", "G", "H", "I", "J", "K", "L", "M",
      "N", "O", "P", "Q", "R", "S", "T", "U", "V", "W", "X", "Y", "Z">>

LowerCase ==
    <<"a", "b", "c", "d", "e", "f", "g", "h", "i", "j", "k", "l", "m",
      "n", "o", "p", "q", "r", "s", "t", "u", "v", "w", "x", "y", "z">>

Digits == {"0", "1", "2", "3", "4", "5", "6", "7", "8", "9"}

IsSpace(c) == c \in Whitespace

IsUpper(c) == \E i \in DOMAIN UpperCase : UpperCase[i] = c

IsDigit(c) == c \in Digits

LowerChar(c) ==
    IF IsUpper(c)
    THEN LowerCase[CHOOSE i \in DOMAIN UpperCase : UpperCase[i] = c]
    ELSE c

\* s.lower()
Lower(s) == [i \in 1..Len(s) |-> LowerChar(s[i])]

\* s[a:b] for 0 <= a
Slice(s, a, b) ==
    IF a >= Min2(b, Len(s)) THEN << >> ELSE SubSeq(s, a + 1, Min2(b, Len(s)))

\* the first position >= i that holds no whitespace (Len(s) + 1 if none)
RECURSIVE FirstNonSpace(_, _)
FirstNonSpace(s, i) ==
    IF i > Len(s) \/ ~IsSpace(s[i]) THEN i ELSE FirstNonSpace(s, i + 1)

\* the last position <= i that holds no whitespace (0 if none)
RECURSIVE LastNonSpace(_, _)
LastNonSpace(s, i) ==
    IF i < 1 \/ ~IsSpace(s[i]) THEN i ELSE LastNonSpace(s, i - 1)

\* s.strip()
Strip(s) ==
    LET a == FirstNonSpace(s, 1)
    IN  IF a > Len(s) THEN << >> ELSE SubSeq(s, a, LastNonSpace(s, Len(s)))

\* s.rstrip()
RStrip(s) == SubSeq(s, 1, LastNonSpace(s, Len(s)))

\* the last position of the word that starts at position i
RECURSIVE WordEnd(_, _)
WordEnd(s, i) ==
    IF i = Len(s) \/ IsSpace(s[i + 1]) THEN i ELSE WordEnd(s, i + 1)

\* s.split(): the maximal runs of non-whitespace, in order
RECURSIVE SplitFrom(_, _)
SplitFrom(s, i) ==
    LET a == FirstNonSpace(s, i)
    IN  IF a > Len(s) THEN << >>
        ELSE LET e == WordEnd(s, a)
             IN  <<SubSeq(s, a, e)>> \o SplitFrom(s, e + 1)

Split(s) == SplitFrom(s, 1)

\* sep.join(parts)
RECURSIVE Join(_, _)
Join(sep, parts) ==
    IF Len(parts) = 0 THEN << >>
    ELSE IF Len(parts) = 1 THEN parts[1]
    ELSE parts[1] \o sep \o Join(sep, Tail(parts))

\* s.find(sub, from): the lowest offset >= from where sub occurs, else -1
Find(s, sub, from) ==
    LET at == {i \in from..(Len(s) - Len(sub)) :
                   SubSeq(s, i + 1, i + Len(sub)) = sub}
    IN  IF at = {} THEN 0 - 1 ELSE SetMin(at)

\* s.rfind(c, lo, hi) for a single character c
RFind(s, c, lo, hi) ==
    LET at == {i \in lo..(Min2(hi, Len(s)) - 1) : s[i + 1] = c}
    IN  IF at = {} THEN 0 - 1 ELSE SetMax(at)

\* sub in s
Contains(s, sub) == Find(s, sub, 0) >= 0

\* s.endswith(c) for a single character c
EndsWithChar(s, c) == Len(s) > 0 /\ s[Len(s)] = c

\* parts[-n:]
LastN(parts, n) ==
    IF Len(parts) <= n THEN parts ELSE SubSeq(parts, Len(parts) - n + 1, Len(parts))

\* parts[:n]
FirstN(parts, n) == IF Len(parts) <= n THEN parts ELSE SubSeq(parts, 1, n)

\* Optional[str]
None == << >>

Some(s) == <<s>>

---------------------------------------------------------------------------
(* core/models.py: Segment; output/chunking.py: Chunk *)

Segment(start, end, text, confidence) ==
    [start |-> start, end |-> end, text |-> text, confidence |-> confidence]

\* segments.index(seg): the Python index of the first segment equal to seg
IndexOf(segments, seg) ==
    SetMin({j \in 1..Len(segments) : segments[j] = seg}) - 1

\* ChunkingStrategy._calculate_confidence
RECURSIVE RatSum(_)
RatSum(confidences) ==
    IF Len(confidences) = 0 THEN Rat(0, 1)
    ELSE RatAdd(confidences[1], RatSum(Tail(confidences)))

_calculate_confidence(segments) ==
    IF Len(segments) = 0 THEN Rat(0, 1)
    ELSE LET confidences ==
                 SelectSeq([k \in 1..Len(segments) |-> segments[k].confidence],
                           LAMBDA c : c.n > 0)
         IN  IF Len(confidences) > 0
             THEN RatMul(RatSum(confidences), Rat(1, Len(confidences)))
             ELSE Rat(1, 1)

\* MakeChunk taking end_time from the group's first segment
MakeChunkEndOfFirst(chunk_text, chunk_segments, all_segments) ==
    [text |-> chunk_text,
     start_time |-> chunk_segments[1].start,
     end_time |-> chunk_segments[1].end,
     segment_indices |->
         [k \in 1..Len(chunk_segments) |-> IndexOf(all_segments, chunk_segments[k])],
     confidence |-> _calculate_confidence(chunk_segments),
     word_count |-> Len(Split(chunk_text)),
     char_count |-> Len(chunk_text),
     overlap_prev |-> None,
     overlap_next |-> None]

\* the Chunk(...) construction shared by the three strategies
MakeChunk(chunk_text, chunk_segments, all_segments) ==
    [text |-> chunk_text,
     start_time |-> chunk_segments[1].start,
     end_time |-> chunk_segments[Len(chunk_segments)].end,
     segment_indices |->
         [k \in 1..Len(chunk_segments) |-> IndexOf(all_segments, chunk_segments[k])],
     confidence |-> _calculate_confidence(chunk_segments),
     word_count |-> Len(Split(chunk_text)),
     char_count |-> Len(chunk_text),
     overlap_prev |-> None,
     overlap_next |-> None]

overlap_words == 20

\* ChunkingStrategy._add_overlap
_add_overlap(chunks) ==
    IF Len(chunks) <= 1 THEN chunks
    ELSE [i \in 1..Len(chunks) |->
            [chunks[i] EXCEPT
               !.overlap_prev =
                   IF i > 1
                   THEN Some(Join(<<" ">>, LastN(Split(chunks[i - 1].text), overlap_words)))
                   ELSE @,
               !.overlap_next =
                   IF i < Len(chunks)
                   THEN Some(Join(<<" ">>, FirstN(Split(chunks[i + 1].text), overlap_words)))
                   ELSE @]]

---------------------------------------------------------------------------
(* FixedSizeChunking *)

\* FixedEndPos comparing the period's offset with half the size, not with the
\* middle of the window
FixedEndPosHalfOfSize(text, start_pos, chunk_size) ==
    LET end_pos == Min2(start_pos + chunk_size, Len(text))
        sentence_end == RFind(text, ".", start_pos, end_pos)
    IN  IF end_pos < Len(text) /\ sentence_end > chunk_size \div 2
        THEN sentence_end + 1
        ELSE end_pos

\* the end of the window that starts at start_pos (chunk: lines 106-112)
FixedEndPos(text, start_pos, chunk_size) ==
    LET end_pos == Min2(start_pos + chunk_size, Len(text))
        sentence_end == RFind(text, ".", start_pos, end_pos)
    IN  IF end_pos < Len(text) /\ sentence_end > start_pos + (chunk_size \div 2)
        THEN sentence_end + 1
        ELSE end_pos

\* the next start without the guaranteed advance of one character
FixedNextStartNoAdvance(start_pos, end_pos, overlap) ==
    Max2(end_pos - overlap, start_pos)

\* the next window's start (chunk: line 133)
FixedNextStart(start_pos, end_pos, overlap) ==
    Max2(end_pos - overlap, start_pos + 1)

\* FixedSizeChunking._find_segments_for_text: the loop from segment k on
RECURSIVE FindSegmentsFrom(_, _, _, _, _, _)
FindSegmentsFrom(segments, k, text_pos, start_pos, end_pos, full_text) ==
    IF k > Len(segments) THEN << >>
    ELSE LET segment == segments[k]
             segment_start == Find(full_text, Strip(segment.text), text_pos)
         IN  (IF segment_start >= start_pos /\ segment_start < end_pos
              THEN <<segment>> ELSE << >>)
             \o FindSegmentsFrom(segments, k + 1,
                                 IF segment_start >= 0
                                 THEN segment_start + Len(segment.text)
                                 ELSE text_pos,
                                 start_pos, end_pos, full_text)

_find_segments_for_text(segments, start_pos, end_pos, full_text) ==
    LET result_segments == FindSegmentsFrom(segments, 1, 0, start_pos, end_pos, full_text)
    IN  IF Len(result_segments) > 0 THEN result_segments ELSE FirstN(segments, 1)

\* the chunks after the window [start_pos, end_pos) (chunk: lines 114-130)
FixedAppend(chunks, text, segments, start_pos, end_pos) ==
    LET chunk_text == Strip(Slice(text, start_pos, end_pos))
        chunk_segments == _find_segments_for_text(segments, start_pos, end_pos, text)
    IN  IF Len(chunk_text) > 0 /\ Len(chunk_segments) > 0
        THEN Append(chunks, MakeChunk(chunk_text, chunk_segments, segments))
        ELSE chunks

\* the while loop of FixedSizeChunking.chunk from start_pos on
RECURSIVE FixedLoop(_, _, _, _, _, _)
FixedLoop(text, segments, chunk_size, overlap, start_pos, chunks) ==
    IF ~(start_pos < Len(text)) THEN chunks
    ELSE LET end_pos == FixedEndPos(text, start_pos, chunk_size)
             chunks2 == FixedAppend(chunks, text, segments, start_pos, end_pos)
             next == FixedNextStart(start_pos, end_pos, overlap)
         IN  IF next >= end_pos THEN chunks2
             ELSE FixedLoop(text, segments, chunk_size, overlap, next, chunks2)

\* FixedSizeChunking.chunk
FixedChunk(result, chunk_size, overlap) ==
    IF Len(result.text) = 0 \/ Len(result.segments) = 0 THEN << >>
    ELSE _add_overlap(FixedLoop(result.text, result.segments, chunk_size, overlap, 0, << >>))

---------------------------------------------------------------------------
(* SentenceChunking *)

SentenceEnders == {".", "!", "?"}

\* the last position of the whitespace run that starts at position i
RunEnd(s, i) == SetMin({j \in i..Len(s) : j = Len(s) \/ ~IsSpace(s[j + 1])})

\* sentence_pattern (?<=[.!?])\s+(?=[A-Z]) matches at position i
SentenceBreakAt(s, i) ==
    /\ i > 1
    /\ s[i - 1] \in SentenceEnders
    /\ IsSpace(s[i])
    /\ RunEnd(s, i) < Len(s)
    /\ IsUpper(s[RunEnd(s, i) + 1])

\* re.split(sentence_pattern, text) from position from on
RECURSIVE ReSplitFrom(_, _)
ReSplitFrom(s, from) ==
    LET at == {i \in from..Len(s) : SentenceBreakAt(s, i)}
    IN  IF at = {} THEN <<SubSeq(s, from, Len(s))>>
        ELSE <<SubSeq(s, from, SetMin(at) - 1)>>
             \o ReSplitFrom(s, RunEnd(s, SetMin(at)) + 1)

\* SentenceChunking._split_sentences
_split_sentences(text) ==
    LET sentences == ReSplitFrom(text, 1)
    IN  SelectSeq([k \in 1..Len(sentences) |-> Strip(sentences[k])],
                  LAMBDA x : Len(x) > 0)

\* SentenceChunking._find_segments_for_sentences
_find_segments_for_sentences(segments, sentences, full_text) ==
    LET result_segments ==
            SelectSeq(segments,
                      LAMBDA segment :
                          \E k \in 1..Len(sentences) :
                              Contains(Lower(segment.text), Lower(sentences[k])))
    IN  IF Len(result_segments) > 0 THEN result_segments ELSE FirstN(segments, 1)

\* the chunks after the pending sentences are made a chunk (chunk: lines 189-202, 213-226)
SentenceFlush(chunks, current_sentences, segments, text) ==
    LET chunk_text == Join(<<" ">>, current_sentences)
        chunk_segments == _find_segments_for_sentences(segments, current_sentences, text)
    IN  IF Len(chunk_segments) > 0
        THEN Append(chunks, MakeChunk(chunk_text, chunk_segments, segments))
        ELSE chunks

\* SentenceStep letting a group grow to max_sentences + 1 sentences
SentenceStepOneMore(st, raw_sentence, segments, text, max_sentences, max_chars) ==
    LET sentence == Strip(raw_sentence)
        would_exceed ==
            \/ Len(st.current_sentences) > max_sentences
            \/ st.current_chars + Len(sentence) > max_chars
    IN  IF Len(sentence) = 0 THEN st
        ELSE IF would_exceed /\ Len(st.current_sentences) > 0
        THEN [chunks |-> SentenceFlush(st.chunks, st.current_sentences, segments, text),
              current_sentences |-> <<sentence>>,
              current_chars |-> Len(sentence)]
        ELSE [chunks |-> st.chunks,
              current_sentences |-> Append(st.current_sentences, sentence),
              current_chars |-> st.current_chars + Len(sentence)]

\* one iteration of the for loop of SentenceChunking.chunk (lines 176-209)
SentenceStep(st, raw_sentence, segments, text, max_sentences, max_chars) ==
    LET sentence == Strip(raw_sentence)
        would_exceed ==
            \/ Len(st.current_sentences) >= max_sentences
            \/ st.current_chars + Len(sentence) > max_chars
    IN  IF Len(sentence) = 0 THEN st
        ELSE IF would_exceed /\ Len(st.current_sentences) > 0
        THEN [chunks |-> SentenceFlush(st.chunks, st.current_sentences, segments, text),
              current_sentences |-> <<sentence>>,
              current_chars |-> Len(sentence)]
        ELSE [chunks |-> st.chunks,
              current_sentences |-> Append(st.current_sentences, sentence),
              current_chars |-> st.current_chars + Len(sentence)]

RECURSIVE SentenceLoop(_, _, _, _, _, _, _)
SentenceLoop(st, sentences, k, segments, text, max_sentences, max_chars) ==
    IF k > Len(sentences) THEN st
    ELSE SentenceLoop(SentenceStep(st, sentences[k], segments, text, max_sentences, max_chars),
                      sentences, k + 1, segments, text, max_sentences, max_chars)

\* the final chunk (chunk: lines 212-226)
SentenceFinal(st, segments, text) ==
    IF Len(st.current_sentences) > 0
    THEN SentenceFlush(st.chunks, st.current_sentences, segments, text)
    ELSE st.chunks

\* SentenceChunking.chunk
SentenceChunk(result, max_sentences, max_chars) ==
    IF Len(result.text) = 0 \/ Len(result.segments) = 0 THEN << >>
    ELSE LET st == SentenceLoop([chunks |-> << >>, current_sentences |-> << >>,
                                 current_chars |-> 0],
                                _split_sentences(result.text), 1,
                                result.segments, result.text, max_sentences, max_chars)
         IN  _add_overlap(SentenceFinal(st, result.segments, result.text))

---------------------------------------------------------------------------
(* SemanticChunking *)

topic_shift_keywords ==
    {<<"h", "o", "w", "e", "v", "e", "r">>,
     <<"b", "u", "t">>,
     <<"m", "e", "a", "n", "w", "h", "i", "l", "e">>,
     <<"f", "u", "r", "t", "h", "e", "r", "m", "o", "r", "e">>,
     <<"m", "o", "r", "e", "o", "v", "e", "r">>,
     <<"a", "d", "d", "i", "t", "i", "o", "n", "a", "l", "l", "y">>,
     <<"i", "n", " ", "c", "o", "n", "t", "r", "a", "s", "t">>,
     <<"o", "n", " ", "t", "h", "e", " ", "o", "t", "h", "e", "r", " ", "h", "a", "n", "d">>,
     <<"s", "i", "m", "i", "l", "a", "r", "l", "y">>,
     <<"l", "i", "k", "e", "w", "i", "s", "e">>,
     <<"t", "h", "e", "r", "e", "f", "o", "r", "e">>,
     <<"c", "o", "n", "s", "e", "q", "u", "e", "n", "t", "l", "y">>,
     <<"a", "s", " ", "a", " ", "r", "e", "s", "u", "l", "t">>,
     <<"i", "n", " ", "c", "o", "n", "c", "l", "u", "s", "i", "o", "n">>,
     <<"t", "o", " ", "s", "u", "m", "m", "a", "r", "i", "z", "e">>,
     <<"f", "i", "n", "a", "l", "l", "y">>,
     <<"f", "i", "r", "s", "t">>,
     <<"s", "e", "c", "o", "n", "d">>,
     <<"t", "h", "i", "r", "d">>,
     <<"n", "e", "x", "t">>,
     <<"t", "h", "e", "n">>,
     <<"a", "f", "t", "e", "r", "w", "a", "r", "d", "s">>,
     <<"p", "r", "e", "v", "i", "o", "u", "s", "l", "y">>,
     <<"m", "o", "v", "i", "n", "g", " ", "o", "n">>,
     <<"t", "u", "r", "n", "i", "n", "g", " ", "t", "o">>,
     <<"r", "e", "g", "a", "r", "d", "i", "n", "g">>,
     <<"c", "o", "n", "c", "e", "r", "n", "i", "n", "g">>,
     <<"s", "p", "e", "a", "k", "i", "n", "g", " ", "o", "f">>}

\* the words of enumeration_patterns after r'^\d+\.'
enumeration_words ==
    {<<"f", "i", "r", "s", "t">>,
     <<"s", "e", "c", "o", "n", "d">>,
     <<"t", "h", "i", "r", "d">>,
     <<"f", "i", "n", "a", "l", "l", "y">>}

StartsWith(s, p) == Len(s) >= Len(p) /\ SubSeq(s, 1, Len(p)) = p

\* re.match(r'^\d+\.', s)
MatchesNumbered(s) ==
    \E k \in 1..(Len(s) - 1) : (\A j \in 1..k : IsDigit(s[j])) /\ s[k + 1] = "."

pause_seconds == 2

\* _is_natural_break measuring the pause from the segment to the one before it
IsNaturalBreakPauseReversed(segment, all_segments, index) ==
    LET text == Strip(Lower(segment.text))
    IN  \/ \E keyword \in topic_shift_keywords : Contains(text, keyword)
        \/ /\ index > 0
           /\ all_segments[index].end - segment.start > pause_seconds
        \/ EndsWithChar(text, "?") /\ index < Len(all_segments) - 1
        \/ MatchesNumbered(text)
        \/ \E w \in enumeration_words : StartsWith(text, w)

\* SemanticChunking._is_natural_break; index is the segment's Python index
_is_natural_break(segment, all_segments, index) ==
    LET text == Strip(Lower(segment.text))
    IN  \/ \E keyword \in topic_shift_keywords : Contains(text, keyword)
        \/ /\ index > 0
           /\ segment.start - all_segments[index].end > pause_seconds
        \/ EndsWithChar(text, "?") /\ index < Len(all_segments) - 1
        \/ MatchesNumbered(text)
        \/ \E w \in enumeration_words : StartsWith(text, w)

\* SemanticChunking._is_sentence_end
_is_sentence_end(text) ==
    \E c \in SentenceEnders : EndsWithChar(RStrip(text), c)

\* raise ValueError(...): the exception in place of a returned value
ValueError == [kind |-> "ValueError"]

\* SemanticChunking._create_chunk_from_segments
_create_chunk_from_segments(segments, all_segments) ==
    IF Len(segments) = 0 THEN ValueError
    ELSE MakeChunk(Join(<<" ">>, [k \in 1..Len(segments) |-> Strip(segments[k].text)]),
                   segments, all_segments)

\* should_break for the segment at position i (chunk: lines 278-291)
SemanticShouldBreak(st, segments, i, target_size, min_size, max_size) ==
    LET segment == segments[i]
        segment_text == Strip(segment.text)
        segment_chars == Len(segment_text)
        is_natural_break == _is_natural_break(segment, segments, i - 1)
        would_exceed_max == st.current_chars + segment_chars > max_size
        is_good_size == st.current_chars >= min_size
    IN  \/ is_natural_break /\ is_good_size
        \/ would_exceed_max
        \/ st.current_chars >= target_size /\ _is_sentence_end(segment_text)

\* the flush test taken on should_break alone
SemanticFlushesUnguarded(st, segments, i, target_size, min_size, max_size) ==
    SemanticShouldBreak(st, segments, i, target_size, min_size, max_size)

\* if should_break and current_segments (chunk: line 293)
SemanticFlushes(st, segments, i, target_size, min_size, max_size) ==
    /\ SemanticShouldBreak(st, segments, i, target_size, min_size, max_size)
    /\ Len(st.current_segments) > 0

\* SemanticStep starting the new group empty after a flush
SemanticStepDropsSegment(st, segments, i, target_size, min_size, max_size) ==
    IF SemanticFlushes(st, segments, i, target_size, min_size, max_size)
    THEN [chunks |-> Append(st.chunks,
                            _create_chunk_from_segments(st.current_segments, segments)),
          current_segments |-> << >>,
          current_chars |-> 0]
    ELSE [chunks |-> st.chunks,
          current_segments |-> Append(st.current_segments, segments[i]),
          current_chars |-> st.current_chars + Len(Strip(segments[i].text))]

\* one iteration of the for loop of SemanticChunking.chunk (lines 277-303)
SemanticStep(st, segments, i, target_size, min_size, max_size) ==
    LET segment == segments[i]
        segment_chars == Len(Strip(segment.text))
    IN  IF SemanticFlushes(st, segments, i, target_size, min_size, max_size)
        THEN [chunks |-> Append(st.chunks,
                                _create_chunk_from_segments(st.current_segments, segments)),
              current_segments |-> <<segment>>,
              current_chars |-> segment_chars]
        ELSE [chunks |-> st.chunks,
              current_segments |-> Append(st.current_segments, segment),
              current_chars |-> st.current_chars + segment_chars]

RECURSIVE SemanticLoop(_, _, _, _, _, _)
SemanticLoop(st, segments, i, target_size, min_size, max_size) ==
    IF i > Len(segments) THEN st
    ELSE SemanticLoop(SemanticStep(st, segments, i, target_size, min_size, max_size),
                      segments, i + 1, target_size, min_size, max_size)

\* the final chunk (chunk: lines 306-308)
SemanticFinal(st, segments) ==
    IF Len(st.current_segments) > 0
    THEN Append(st.chunks, _create_chunk_from_segments(st.current_segments, segments))
    ELSE st.chunks

\* SemanticChunking.chunk
SemanticChunk(result, target_size, min_size, max_size) ==
    IF Len(result.segments) = 0 THEN << >>
    ELSE LET st == SemanticLoop([chunks |-> << >>, current_segments |-> << >>,
                                 current_chars |-> 0],
                                result.segments, 1, target_size, min_size, max_size)
         IN  _add_overlap(SemanticFinal(st, result.segments))

---------------------------------------------------------------------------
(* RAGOptimizer *)

IsAlnum(c) == IsUpper(c) \/ IsDigit(c) \/ \E i \in DOMAIN LowerCase : LowerCase[i] = c

\* s.split(c) for a single character c: the pieces between the separators
RECURSIVE SplitOn(_, _)
SplitOn(s, c) ==
    LET at == {i \in 1..Len(s) : s[i] = c}
    IN  IF at = {} THEN <<s>>
        ELSE <<SubSeq(s, 1, SetMin(at) - 1)>>
             \o SplitOn(SubSeq(s, SetMin(at) + 1, Len(s)), c)

stop_words ==
    {<<"t", "h", "e">>,
     <<"a">>,
     <<"a", "n">>,
     <<"a", "n", "d">>,
     <<"o", "r">>,
     <<"b", "u", "t">>,
     <<"i", "n">>,
     <<"o", "n">>,
     <<"a", "t">>,
     <<"t", "o">>,
     <<"f", "o", "r">>,
     <<"o", "f">>,
     <<"w", "i", "t", "h">>,
     <<"b", "y">>,
     <<"f", "r", "o", "m">>,
     <<"u", "p">>,
     <<"a", "b", "o", "u", "t">>,
     <<"i", "n", "t", "o">>,
     <<"t", "h", "r", "o", "u", "g", "h">>,
     <<"d", "u", "r", "i", "n", "g">>,
     <<"b", "e", "f", "o", "r", "e">>,
     <<"a", "f", "t", "e", "r">>,
     <<"a", "b", "o", "v", "e">>,
     <<"b", "e", "l", "o", "w">>,
     <<"b", "e", "t", "w", "e", "e", "n">>,
     <<"a", "m", "o", "n", "g">>,
     <<"t", "h", "i", "s">>,
     <<"t", "h", "a", "t">>,
     <<"t", "h", "e", "s", "e">>,
     <<"t", "h", "o", "s", "e">>,
     <<"i">>,
     <<"m", "e">>,
     <<"m", "y">>,
     <<"m", "y", "s", "e", "l", "f">>,
     <<"w", "e">>,
     <<"o", "u", "r">>,
     <<"o", "u", "r", "s">>,
     <<"o", "u", "r", "s", "e", "l", "v", "e", "s">>,
     <<"y", "o", "u">>,
     <<"y", "o", "u", "r">>,
     <<"y", "o", "u", "r", "s">>,
     <<"y", "o", "u", "r", "s", "e", "l", "f">>,
     <<"y", "o", "u", "r", "s", "e", "l", "v", "e", "s">>,
     <<"h", "e">>,
     <<"h", "i", "m">>,
     <<"h", "i", "s">>,
     <<"h", "i", "m", "s", "e", "l", "f">>,
     <<"s", "h", "e">>,
     <<"h", "e", "r">>,
     <<"h", "e", "r", "s">>,
     <<"h", "e", "r", "s", "e", "l", "f">>,
     <<"i", "t">>,
     <<"i", "t", "s">>,
     <<"i", "t", "s", "e", "l", "f">>,
     <<"t", "h", "e", "y">>,
     <<"t", "h", "e", "m">>,
     <<"t", "h", "e", "i", "r">>,
     <<"t", "h", "e", "i", "r", "s">>,
     <<"t", "h", "e", "m", "s", "e", "l", "v", "e", "s">>,
     <<"w", "h", "a", "t">>,
     <<"w", "h", "i", "c", "h">>,
     <<"w", "h", "o">>,
     <<"w", "h", "o", "m">>,
     <<"a", "m">>,
     <<"i", "s">>,
     <<"a", "r", "e">>,
     <<"w", "a", "s">>,
     <<"w", "e", "r", "e">>,
     <<"b", "e">>,
     <<"b", "e", "e", "n">>,
     <<"b", "e", "i", "n", "g">>,
     <<"h", "a", "v", "e">>,
     <<"h", "a", "s">>,
     <<"h", "a", "d">>,
     <<"h", "a", "v", "i", "n", "g">>,
     <<"d", "o">>,
     <<"d", "o", "e", "s">>,
     <<"d", "i", "d">>,
     <<"d", "o", "i", "n", "g">>,
     <<"w", "i", "l", "l">>,
     <<"w", "o", "u", "l", "d">>,
     <<"s", "h", "o", "u", "l", "d">>,
     <<"c", "o", "u", "l", "d">>,
     <<"c", "a", "n">>,
     <<"m", "a", "y">>,
     <<"m", "i", "g", "h", "t">>,
     <<"m", "u", "s", "t">>,
     <<"s", "h", "a", "l", "l">>}

\* topic_keywords, in the dictionary's order
topic_names == <<"technology", "business", "education", "health", "science", "finance">>

topic_keywords ==
    <<{<<"s", "o", "f", "t", "w", "a", "r", "e">>,
       <<"c", "o", "m", "p", "u", "t", "e", "r">>,
       <<"d", "i", "g", "i", "t", "a", "l">>,
       <<"a", "l", "g", "o", "r", "i", "t", "h", "m">>,
       <<"d", "a", "t", "a">>,
       <<"s", "y", "s", "t", "e", "m">>,
       <<"p", "r", "o", "g", "r", "a", "m">>,
       <<"c", "o", "d", "e">>,
       <<"t", "e", "c", "h">>,
       <<"A", "I">>,
       <<"m", "a", "c", "h", "i", "n", "e", " ", "l", "e", "a", "r", "n", "i", "n", "g">>},
      {<<"c", "o", "m", "p", "a", "n", "y">>,
       <<"m", "a", "r", "k", "e", "t">>,
       <<"r", "e", "v", "e", "n", "u", "e">>,
       <<"p", "r", "o", "f", "i", "t">>,
       <<"s", "t", "r", "a", "t", "e", "g", "y">>,
       <<"c", "u", "s", "t", "o", "m", "e", "r">>,
       <<"s", "a", "l", "e", "s">>,
       <<"b", "u", "s", "i", "n", "e", "s", "s">>,
       <<"c", "o", "r", "p", "o", "r", "a", "t", "e">>,
       <<"f", "i", "n", "a", "n", "c", "i", "a", "l">>},
      {<<"l", "e", "a", "r", "n">>,
       <<"t", "e", "a", "c", "h">>,
       <<"s", "t", "u", "d", "e", "n", "t">>,
       <<"s", "c", "h", "o", "o", "l">>,
       <<"u", "n", "i", "v", "e", "r", "s", "i", "t", "y">>,
       <<"e", "d", "u", "c", "a", "t", "i", "o", "n">>,
       <<"s", "t", "u", "d", "y">>,
       <<"c", "o", "u", "r", "s", "e">>,
       <<"k", "n", "o", "w", "l", "e", "d", "g", "e">>,
       <<"a", "c", "a", "d", "e", "m", "i", "c">>},
      {<<"h", "e", "a", "l", "t", "h">>,
       <<"m", "e", "d", "i", "c", "a", "l">>,
       <<"d", "o", "c", "t", "o", "r">>,
       <<"p", "a", "t", "i", "e", "n", "t">>,
       <<"t", "r", "e", "a", "t", "m", "e", "n", "t">>,
       <<"m", "e", "d", "i", "c", "i", "n", "e">>,
       <<"h", "o", "s", "p", "i", "t", "a", "l">>,
       <<"c", "a", "r", "e">>,
       <<"d", "i", "s", "e", "a", "s", "e">>,
       <<"t", "h", "e", "r", "a", "p", "y">>},
      {<<"r", "e", "s", "e", "a", "r", "c", "h">>,
       <<"s", "t", "u", "d", "y">>,
       <<"e", "x", "p", "e", "r", "i", "m", "e", "n", "t">>,
       <<"t", "h", "e", "o", "r", "y">>,
       <<"a", "n", "a", "l", "y", "s", "i", "s">>,
       <<"s", "c", "i", "e", "n", "t", "i", "f", "i", "c">>,
       <<"h", "y", "p", "o", "t", "h", "e", "s", "i", "s">>,
       <<"m", "e", "t", "h", "o", "d">>,
       <<"r", "e", "s", "u", "l", "t">>,
       <<"d", "a", "t", "a">>},
      {<<"m", "o", "n", "e", "y">>,
       <<"i", "n", "v", "e", "s", "t", "m", "e", "n", "t">>,
       <<"b", "a", "n", "k">>,
       <<"f", "i", "n", "a", "n", "c", "i", "a", "l">>,
       <<"e", "c", "o", "n", "o", "m", "i", "c">>,
       <<"b", "u", "d", "g", "e", "t">>,
       <<"c", "o", "s", "t">>,
       <<"p", "r", "i", "c", "e">>,
       <<"f", "u", "n", "d", "i", "n", "g">>,
       <<"c", "a", "p", "i", "t", "a", "l">>}>>

\* the eligible tokens, filtered on the raw word before its punctuation is removed
KeywordTokensRawFilter(text) ==
    LET words == SelectSeq(Split(Lower(text)),
                           LAMBDA word : Len(word) > 2 /\ word \notin stop_words)
    IN  [k \in 1..Len(words) |-> Lower(SelectSeq(words[k], IsAlnum))]

\* the tokens counted by _extract_keywords, in order (lines 129, 148-152)
KeywordTokens(text) ==
    LET words == Split(Lower(text))
    IN  SelectSeq([k \in 1..Len(words) |-> Lower(SelectSeq(words[k], IsAlnum))],
                  LAMBDA clean_word : Len(clean_word) > 2 /\ clean_word \notin stop_words)

\* word_freq[w]
WordFreq(tokens, w) == Cardinality({k \in 1..Len(tokens) : tokens[k] = w})

\* the position at which w entered word_freq
FirstSeen(tokens, w) == SetMin({k \in 1..Len(tokens) : tokens[k] = w})

\* the sort with equally frequent tokens in reverse insertion order
RECURSIVE SortByFreqTiesReversed(_, _)
SortByFreqTiesReversed(tokens, S) ==
    IF S = {} THEN << >>
    ELSE LET best == CHOOSE w \in S : \A v \in S :
                         \/ WordFreq(tokens, w) > WordFreq(tokens, v)
                         \/ /\ WordFreq(tokens, w) = WordFreq(tokens, v)
                            /\ FirstSeen(tokens, w) >= FirstSeen(tokens, v)
         IN  <<best>> \o SortByFreqTiesReversed(tokens, S \ {best})

\* sorted(word_freq.items(), key=freq, reverse=True): stable on insertion order
RECURSIVE SortByFreq(_, _)
SortByFreq(tokens, S) ==
    IF S = {} THEN << >>
    ELSE LET best == CHOOSE w \in S : \A v \in S :
                         \/ WordFreq(tokens, w) > WordFreq(tokens, v)
                         \/ /\ WordFreq(tokens, w) = WordFreq(tokens, v)
                            /\ FirstSeen(tokens, w) <= FirstSeen(tokens, v)
         IN  <<best>> \o SortByFreq(tokens, S \ {best})

\* RAGOptimizer._extract_keywords
_extract_keywords(text) ==
    LET tokens == KeywordTokens(text)
        keywords == SortByFreq(tokens, {tokens[k] : k \in 1..Len(tokens)})
    IN  SelectSeq(FirstN(keywords, 10), LAMBDA w : WordFreq(tokens, w) > 1)

Ellipsis == <<".", ".", ".">>

\* RAGOptimizer._generate_summary
_generate_summary(text) ==
    LET pieces == SplitOn(text, ".")
        sentences == SelectSeq([k \in 1..Len(pieces) |-> Strip(pieces[k])],
                               LAMBDA x : Len(x) > 0)
        summary == IF Len(sentences[1]) < 50 /\ Len(sentences) > 1
                   THEN sentences[1] \o <<".", " ">> \o sentences[2]
                   ELSE sentences[1]
    IN  IF Len(sentences) = 0
        THEN (IF Len(text) > 100 THEN Slice(text, 0, 100) \o Ellipsis ELSE text)
        ELSE (IF Len(summary) > 200 THEN Slice(summary, 0, 200) \o Ellipsis ELSE summary)

\* RAGOptimizer._identify_topics
_identify_topics(text) ==
    LET text_lower == Lower(text)
    IN  SelectSeq(topic_names,
                  LAMBDA topic :
                      \E k \in DOMAIN topic_names :
                          /\ topic_names[k] = topic
                          /\ \E keyword \in topic_keywords[k] : Contains(text_lower, keyword))

\* _calculate_quality_score without the final min(score, 1.0)
QualityScoreUnclamped(chunk) ==
    LET s1 == RatMul(Rat(1, 1), chunk.confidence)
        s2 == IF chunk.word_count < 10 THEN RatMul(s1, Rat(7, 10)) ELSE s1
        s3 == IF RatLess(chunk.confidence, Rat(1, 2)) THEN RatMul(s2, Rat(6, 10)) ELSE s2
    IN  IF 50 <= chunk.word_count /\ chunk.word_count <= 200
        THEN RatMul(s3, Rat(11, 10)) ELSE s3

\* _calculate_quality_score whose low-confidence penalty replaces the short-chunk one
QualityScorePenaltiesExclusive(chunk) ==
    LET s1 == RatMul(Rat(1, 1), chunk.confidence)
        s2 == IF chunk.word_count < 10 THEN RatMul(s1, Rat(7, 10)) ELSE s1
        s3 == IF RatLess(chunk.confidence, Rat(1, 2)) THEN RatMul(s1, Rat(6, 10)) ELSE s2
        s4 == IF 50 <= chunk.word_count /\ chunk.word_count <= 200
              THEN RatMul(s3, Rat(11, 10)) ELSE s3
    IN  RatMin(s4, Rat(1, 1))

\* RAGOptimizer._calculate_quality_score
_calculate_quality_score(chunk) ==
    LET s1 == RatMul(Rat(1, 1), chunk.confidence)
        s2 == IF chunk.word_count < 10 THEN RatMul(s1, Rat(7, 10)) ELSE s1
        s3 == IF RatLess(chunk.confidence, Rat(1, 2)) THEN RatMul(s2, Rat(6, 10)) ELSE s2
        s4 == IF 50 <= chunk.word_count /\ chunk.word_count <= 200
              THEN RatMul(s3, Rat(11, 10)) ELSE s3
    IN  RatMin(s4, Rat(1, 1))

---------------------------------------------------------------------------
(* the regular expressions of RAGOptimizer._extract_entities *)

\* \w
IsWordChar(c) == IsAlnum(c) \/ c = "_"

\* \b at offset p of s
WordBoundary(s, p) ==
    (p > 0 /\ IsWordChar(s[p])) # (p < Len(s) /\ IsWordChar(s[p + 1]))

ReSet(S) == [kind |-> "set", set |-> S]

ReB == [kind |-> "b"]

\* (?:sub)?, greedy
ReOpt(sub) == [kind |-> "opt", sub |-> sub]

\* (?:sub)*, greedy
ReStar(sub) == [kind |-> "star", sub |-> sub]

\* (?:a|b|...)
ReAlt(subs) == [kind |-> "alt", subs |-> subs]

ReLit(s) == [i \in 1..Len(s) |-> ReSet({s[i]})]

SeqRange(s) == {s[i] : i \in DOMAIN s}

ReDigit == ReSet(Digits)

\* the end offset of the first match (in backtracking order) of the node
\* sequence re at offset p of s, or -1
RECURSIVE ReMatch(_, _, _)
RECURSIVE ReMatchAlt(_, _, _, _, _)
ReMatch(re, s, p) ==
    IF Len(re) = 0 THEN p
    ELSE
    LET head == re[1]
        rest == Tail(re)
    IN  CASE head.kind = "set" ->
                 IF p < Len(s) /\ s[p + 1] \in head.set
                 THEN ReMatch(rest, s, p + 1) ELSE 0 - 1
          [] head.kind = "b" ->
                 IF WordBoundary(s, p) THEN ReMatch(rest, s, p) ELSE 0 - 1
          [] head.kind = "opt" ->
                 LET r == ReMatch(head.sub \o rest, s, p)
                 IN  IF r >= 0 THEN r ELSE ReMatch(rest, s, p)
          [] head.kind = "star" ->
                 LET r == ReMatch(head.sub \o re, s, p)
                 IN  IF r >= 0 THEN r ELSE ReMatch(rest, s, p)
          [] head.kind = "alt" -> ReMatchAlt(head.subs, 1, rest, s, p)

ReMatchAlt(subs, k, rest, s, p) ==
    IF k > Len(subs) THEN 0 - 1
    ELSE LET r == ReMatch(subs[k] \o rest, s, p)
         IN  IF r >= 0 THEN r ELSE ReMatchAlt(subs, k + 1, rest, s, p)

\* the spans of re.finditer from offset pos on, ends[p] being the end of the
\* match that starts at offset p (or -1): the leftmost match, then the
\* leftmost one that starts at or after its end
RECURSIVE SpansFrom(_, _, _)
SpansFrom(ends, n, pos) ==
    LET starts == {p \in pos..n : ends[p] >= 0}
    IN  IF starts = {} THEN << >>
        ELSE LET p == SetMin(starts)
             IN  <<[start |-> p, end |-> ends[p]]>>
                 \o SpansFrom(ends, n, IF ends[p] > p THEN ends[p] ELSE p + 1)

\* re.finditer(re, s): the (start, end) spans of the matches; none of the
\* patterns below matches the empty string
FindIter(re, s) ==
    LET ends == [p \in 0..Len(s) |-> ReMatch(re, s, p)]
    IN  SpansFrom(ends, Len(s), 0)

AmPm == ReAlt(<<ReLit(<<"A", "M">>), ReLit(<<"P", "M">>),
                ReLit(<<"a", "m">>), ReLit(<<"p", "m">>)>>)

\* lines 182-185
time_patterns ==
    <<  \* \b\d{1,2}:\d{2}(?::\d{2})?\s*(?:AM|PM|am|pm)?\b
        <<ReB, ReDigit, ReOpt(<<ReDigit>>), ReSet({":"}), ReDigit, ReDigit,
          ReOpt(<<ReSet({":"}), ReDigit, ReDigit>>),
          ReStar(<<ReSet(Whitespace)>>), ReOpt(<<AmPm>>), ReB>>,
        \* \b\d{1,2}\s*(?:AM|PM|am|pm)\b
        <<ReB, ReDigit, ReOpt(<<ReDigit>>), ReStar(<<ReSet(Whitespace)>>), AmPm, ReB>> >>

\* lines 197-200
number_patterns ==
    <<  \* \b\d+(?:,\d{3})*(?:\.\d+)?\b
        <<ReB, ReDigit, ReStar(<<ReDigit>>),
          ReStar(<<ReSet({","}), ReDigit, ReDigit, ReDigit>>),
          ReOpt(<<ReSet({"."}), ReDigit, ReStar(<<ReDigit>>)>>), ReB>>,
        \* \b\d+(?:\.\d+)?%\b
        <<ReB, ReDigit, ReStar(<<ReDigit>>),
          ReOpt(<<ReSet({"."}), ReDigit, ReStar(<<ReDigit>>)>>), ReSet({"%"}), ReB>> >>

\* line 212: \b[A-Z][a-z]+(?:\s+[A-Z][a-z]+)*\b
proper_noun_pattern ==
    <<ReB, ReSet(SeqRange(UpperCase)), ReSet(SeqRange(LowerCase)),
      ReStar(<<ReSet(SeqRange(LowerCase))>>),
      ReStar(<<ReSet(Whitespace), ReStar(<<ReSet(Whitespace)>>),
               ReSet(SeqRange(UpperCase)), ReSet(SeqRange(LowerCase)),
               ReStar(<<ReSet(SeqRange(LowerCase))>>)>>),
      ReB>>

\* line 217
skipped_words ==
    {<<"T", "h", "e">>, <<"T", "h", "i", "s">>, <<"T", "h", "a", "t">>,
     <<"A", "n", "d">>, <<"B", "u", "t">>, <<"S", "o">>, <<"N", "o", "w">>,
     <<"T", "h", "e", "n">>}

\* the entities of the matches of one pattern
EntitiesOf(re, text, type) ==
    LET spans == FindIter(re, text)
    IN  [k \in 1..Len(spans) |->
            [text |-> Slice(text, spans[k].start, spans[k].end),
             type |-> type,
             start |-> spans[k].start,
             end |-> spans[k].end]]

IsKept(entity) == entity.text \notin skipped_words

\* RAGOptimizer._extract_entities
_extract_entities(text) ==
    EntitiesOf(time_patterns[1], text, "TIME")
    \o EntitiesOf(time_patterns[2], text, "TIME")
    \o EntitiesOf(number_patterns[1], text, "NUMBER")
    \o EntitiesOf(number_patterns[2], text, "NUMBER")
    \o SelectSeq(EntitiesOf(proper_noun_pattern, text, "PROPER_NOUN"), IsKept)

DigitChars == <<"0", "1", "2", "3", "4", "5", "6", "7", "8", "9">>

\* str(n) for n >= 0
RECURSIVE DecimalOf(_)
DecimalOf(n) ==
    IF n < 10 THEN <<DigitChars[n + 1]>>
    ELSE DecimalOf(n \div 10) \o <<DigitChars[(n % 10) + 1]>>

\* f"{n:03d}" keeping the last three digits only
Format03dLastThree(n) ==
    <<DigitChars[((n \div 100) % 10) + 1], DigitChars[((n \div 10) % 10) + 1],
      DigitChars[(n % 10) + 1]>>

\* f"{n:03d}" for n >= 0
Format03d(n) ==
    LET d == DecimalOf(n)
    IN  [k \in 1..(3 - Len(d)) |-> "0"] \o d

\* the chunk_id of _enhance_chunk (line 93)
ChunkId(file_path, index) ==
    LET parts == SplitOn(file_path, "/")
    IN  parts[Len(parts)] \o <<"_">> \o Format03d(index)

\* RAGOptimizer._enhance_chunk; index is the chunk's Python index
_enhance_chunk(chunk, index, result) ==
    [text |-> chunk.text,
     start_time |-> chunk.start_time,
     end_time |-> chunk.end_time,
     duration |-> chunk.end_time - chunk.start_time,
     word_count |-> chunk.word_count,
     char_count |-> chunk.char_count,
     confidence |-> chunk.confidence,
     chunk_id |-> ChunkId(result.file_path, index),
     keywords |-> _extract_keywords(chunk.text),
     summary |-> _generate_summary(chunk.text),
     context_before |-> None,
     context_after |-> None,
     entities |-> _extract_entities(chunk.text),
     topics |-> _identify_topics(chunk.text),
     quality_score |-> _calculate_quality_score(chunk)]

\* _add_context_links taking the previous chunk's first words
AddContextLinksFirstWords(chunks) ==
    [i \in 1..Len(chunks) |->
        [chunks[i] EXCEPT
           !.context_before =
               IF i > 1
               THEN Some(Join(<<" ">>, FirstN(Split(chunks[i - 1].text), 20)))
               ELSE @,
           !.context_after =
               IF i < Len(chunks)
               THEN Some(Join(<<" ">>, FirstN(Split(chunks[i + 1].text), 20)))
               ELSE @]]

context_words == 20

\* RAGOptimizer._add_context_links
_add_context_links(chunks) ==
    [i \in 1..Len(chunks) |->
        [chunks[i] EXCEPT
           !.context_before =
               IF i > 1
               THEN Some(Join(<<" ">>, LastN(Split(chunks[i - 1].text), context_words)))
               ELSE @,
           !.context_after =
               IF i < Len(chunks)
               THEN Some(Join(<<" ">>, FirstN(Split(chunks[i + 1].text), context_words)))
               ELSE @]]

---------------------------------------------------------------------------
(* The strategies an optimizer is built with, and the transcripts it is given *)

\* ChunkingStrategy.chunk, dispatched on the strategy object
StrategyChunk(strategy, result) ==
    CASE strategy.kind = "fixed" ->
             FixedChunk(result, strategy.chunk_size, strategy.overlap)
      [] strategy.kind = "sentence" ->
             SentenceChunk(result, strategy.max_sentences, strategy.max_chars)
      [] strategy.kind = "semantic" ->
             SemanticChunk(result, strategy.target_size, strategy.min_size,
                           strategy.max_size)

\* the for loop of RAGOptimizer.optimize (lines 79-82)
EnhanceAll(base_chunks, result) ==
    [i \in 1..Len(base_chunks) |-> _enhance_chunk(base_chunks[i], i - 1, result)]

MaxSegs == 3

MaxCalls == 2

\* segments as the transcription step produces them (text stripped)
SegPool ==
    {Segment(0, 9, <<"A", ".", " ", "B", ".">>, Rat(1, 4)),
     Segment(1, 2, <<"a", " ", "b", "?">>, Rat(1, 2)),
     Segment(4, 4, <<"a", "b">>, Rat(0, 1)),
     Segment(5, 6, << >>, Rat(0 - 1, 2)),
     Segment(5, 7, <<"B", "u", "t", " ", "a", ".">>, Rat(1, 1)),
     Segment(12, 13, <<"C", "b", " ", "a", "b">>, Rat(3, 2))}

\* TranscriptionResult.segments is ordered by non-decreasing start
SegLists ==
    {segs \in UNION {[1..n -> SegPool] : n \in 0..MaxSegs} :
        \A k \in 1..(Len(segs) - 1) : segs[k].start <= segs[k + 1].start}

\* the transcript text of the segments: their texts joined by single spaces
JoinedText(segs) ==
    Join(<<" ">>, SelectSeq([k \in 1..Len(segs) |-> Strip(segs[k].text)],
                            LAMBDA x : Len(x) > 0))

FilePath == <<"/", "d", "/", "f", ".", "w", "a", "v">>

\* a transcript with its text, or with the text missing (empty)
Results ==
    {[text |-> t, segments |-> segs, file_path |-> FilePath] :
        <<segs, t>> \in {<<s, JoinedText(s)>> : s \in SegLists}
                        \cup {<<s, << >> >> : s \in SegLists}}

FixedStrategy(c, o) == [kind |-> "fixed", chunk_size |-> c, overlap |-> o]

SentenceStrategy(m, c) == [kind |-> "sentence", max_sentences |-> m, max_chars |-> c]

SemanticStrategy(t, lo, hi) ==
    [kind |-> "semantic", target_size |-> t, min_size |-> lo, max_size |-> hi]

Strategies ==
    {FixedStrategy(4, 1), FixedStrategy(6, 0), FixedStrategy(8, 3)}
    \cup {SentenceStrategy(m, c) : m \in {0, 1, 2}, c \in {4, 100}}
    \cup {SemanticStrategy(t, lo, hi) : t \in {3, 100}, lo \in {0, 4}, hi \in {6, 100}}

---------------------------------------------------------------------------
(* RAGOptimizer.optimize as a state machine *)

VARIABLES
    result,             \* the TranscriptionResult given to optimize / chunk
    chunking_strategy,  \* RAGOptimizer.chunking_strategy
    pc,                 \* the position inside the running function
    base_chunks,        \* optimize's local base_chunks
    rag_chunks,         \* optimize's local rag_chunks
    returned,           \* what the calls of optimize returned, in order
    frame,              \* the locals of a strategy's chunk() while its loop runs
    arg,                \* the argument of a function applied on its own
    ret                 \* and what it returned

vars == <<result, chunking_strategy, pc, base_chunks, rag_chunks, returned,
          frame, arg, ret>>

NoFrame == << >>

Init ==
    /\ result \in Results
    /\ chunking_strategy \in Strategies
    /\ pc = "idle"
    /\ base_chunks = << >>
    /\ rag_chunks = << >>
    /\ returned = << >>
    /\ frame = NoFrame
    /\ arg = << >>
    /\ ret = << >>

\* rag_chunks kept from the previous call
KeepRagChunks(old) == old

\* the list rag_chunks starts from (line 79)
NewRagChunks(old) == << >>

\* optimize, lines 76 and 79
Chunk ==
    /\ pc = "idle"
    /\ Len(returned) < MaxCalls
    /\ base_chunks' = StrategyChunk(chunking_strategy, result)
    /\ rag_chunks' = NewRagChunks(rag_chunks)
    /\ pc' = "enhance"
    /\ UNCHANGED <<result, chunking_strategy, returned, frame, arg, ret>>

\* optimize, lines 80-82
Enhance ==
    /\ pc = "enhance"
    /\ rag_chunks' = rag_chunks \o EnhanceAll(base_chunks, result)
    /\ pc' = "link"
    /\ UNCHANGED <<result, chunking_strategy, base_chunks, returned, frame, arg, ret>>

\* optimize, line 85
AddContextLinks ==
    /\ pc = "link"
    /\ rag_chunks' = _add_context_links(rag_chunks)
    /\ pc' = "return"
    /\ UNCHANGED <<result, chunking_strategy, base_chunks, returned, frame, arg, ret>>

\* Return handing the segment list over to the caller and leaving result without it
ReturnConsumingSegments ==
    /\ pc = "return"
    /\ returned' = Append(returned, rag_chunks)
    /\ result' = [result EXCEPT !.segments = << >>]
    /\ pc' = "idle"
    /\ UNCHANGED <<chunking_strategy, base_chunks, rag_chunks, frame, arg, ret>>

\* optimize, line 87
Return ==
    /\ pc = "return"
    /\ returned' = Append(returned, rag_chunks)
    /\ pc' = "idle"
    /\ UNCHANGED <<result, chunking_strategy, base_chunks, rag_chunks, frame, arg, ret>>

Next == Chunk \/ Enhance \/ AddContextLinks \/ Return

Spec == Init /\ [][Next]_vars

---------------------------------------------------------------------------
(* Properties of the chunks a strategy returns *)

\* the strategy has returned base_chunks for result
Chunked == pc = "enhance"

IndexSet(chunk) == {chunk.segment_indices[k] : k \in 1..Len(chunk.segment_indices)}

\* C1: whenever the text is non-empty and there is at least one segment, the index
\* of every segment with non-empty text is in the segment_indices of some chunk.
C1_Coverage ==
    (Chunked /\ Len(result.text) > 0 /\ Len(result.segments) > 0)
        => \A i \in 1..Len(result.segments) :
               Len(result.segments[i].text) > 0
                   => \E c \in 1..Len(base_chunks) : (i - 1) \in IndexSet(base_chunks[c])

\* C2: every chunk starts at the start of the segment at segment_indices[0], ends
\* at the end of the segment at segment_indices[-1], and starts no later than it ends.
C2_ChunkTimes ==
    Chunked
        => \A c \in 1..Len(base_chunks) :
               LET chunk == base_chunks[c]
                   idx == chunk.segment_indices
               IN  /\ chunk.start_time = result.segments[idx[1] + 1].start
                   /\ chunk.end_time = result.segments[idx[Len(idx)] + 1].end
                   /\ chunk.start_time <= chunk.end_time

\* a chunk of several segments that ends later than it starts has been produced
C2_Witness ==
    /\ Chunked
    /\ \E c \in 1..Len(base_chunks) :
           /\ Cardinality(IndexSet(base_chunks[c])) >= 2
           /\ base_chunks[c].start_time < base_chunks[c].end_time

\* C3: the segment_indices of every chunk are non-empty and strictly increasing.
C3_StrictlyIncreasing ==
    Chunked
        => \A c \in 1..Len(base_chunks) :
               LET idx == base_chunks[c].segment_indices
               IN  /\ Len(idx) > 0
                   /\ \A k \in 1..(Len(idx) - 1) : idx[k] < idx[k + 1]

\* C4: with an empty text or an empty segment list every strategy returns no
\* chunk, and optimize then returns no chunk.
C4_DegenerateEmpty ==
    (Len(result.text) = 0 \/ Len(result.segments) = 0)
        => /\ Chunked => base_chunks = << >>
           /\ \A k \in 1..Len(returned) : returned[k] = << >>

Zero == Rat(0, 1)

One == Rat(1, 1)

\* C5: the quality_score of every RAGChunk optimize returns is in [0, 1].
C5_QualityBound ==
    \A k \in 1..Len(returned) : \A i \in 1..Len(returned[k]) :
        /\ RatLeq(Zero, returned[k][i].quality_score)
        /\ RatLeq(returned[k][i].quality_score, One)

\* optimize has returned a chunk built from a segment whose confidence is 0
C5_Witness ==
    /\ Len(returned) > 0
    /\ Len(returned[1]) = Len(base_chunks)
    /\ \E i \in 1..Len(base_chunks) : \E x \in IndexSet(base_chunks[i]) :
           result.segments[x + 1].confidence = Zero

RECURSIVE HoldsSentences(_, _, _)
HoldsSentences(chunks, sentences, most) ==
    IF Len(chunks) = 0 THEN Len(sentences) = 0
    ELSE \E k \in 1..Min2(most, Len(sentences)) :
             /\ chunks[1].text = Join(<<" ">>, SubSeq(sentences, 1, k))
             /\ HoldsSentences(Tail(chunks),
                               SubSeq(sentences, k + 1, Len(sentences)), most)

\* C29: for a non-empty text and at least one segment, SentenceChunking places
\* each sentence of _split_sentences in exactly one chunk, in the original order
\* (the chunk texts joined by single spaces are the sentences joined by single
\* spaces), drops no chunk, and every chunk holds between 1 and
\* max(1, max_sentences) sentences.
C29_SentencesKept ==
    (/\ Chunked
     /\ chunking_strategy.kind = "sentence"
     /\ Len(result.text) > 0
     /\ Len(result.segments) > 0)
    => LET sentences == _split_sentences(result.text)
       IN  /\ Join(<<" ">>, [k \in 1..Len(base_chunks) |-> base_chunks[k].text])
                  = Join(<<" ">>, sentences)
           /\ HoldsSentences(base_chunks, sentences,
                             Max2(1, chunking_strategy.max_sentences))

\* five sentences have been chunked two by two
C29_Witness ==
    /\ Chunked
    /\ chunking_strategy = SentenceStrategy(2, 100)
    /\ Len(_split_sentences(result.text)) = 5
    /\ Len(base_chunks) = 3
---------------------------------------------------------------------------
(* optimize on transcripts whose segments are longer than the context window *)

\* the text "1 2 ... n"
NumberedWords(n) == Join(<<" ">>, [k \in 1..n |-> DecimalOf(k)])

LongSegPool ==
    {Segment(0, n, NumberedWords(n), Rat(1, 1)) : n \in {1, 20, 21}}

MaxLongSegs == 2

LongResults ==
    {[text |-> JoinedText(segs), segments |-> segs, file_path |-> FilePath] :
        segs \in UNION {[1..n -> LongSegPool] : n \in 0..MaxLongSegs}}

LongStrategies ==
    {SemanticStrategy(1000, 200, 2000), SemanticStrategy(100, 0, 5), FixedStrategy(60, 10)}

InitLong ==
    /\ result \in LongResults
    /\ chunking_strategy \in LongStrategies
    /\ pc = "idle"
    /\ base_chunks = << >>
    /\ rag_chunks = << >>
    /\ returned = << >>
    /\ frame = NoFrame
    /\ arg = << >>
    /\ ret = << >>

SpecLong == InitLong /\ [][Next]_vars

\* C10: in what optimize returns, context_before is None for the first chunk and
\* otherwise the last 20 (or fewer) words of the previous chunk's text joined by
\* single spaces; context_after is None for the last chunk and otherwise the first
\* 20 (or fewer) words of the next chunk's text; a single chunk has both None.
C10_ContextLinks ==
    \A c \in 1..Len(returned) :
        LET out == returned[c]
        IN  \A i \in 1..Len(out) :
                /\ IF i = 1 THEN out[i].context_before = None
                   ELSE LET prev == Split(out[i - 1].text)
                            n == Min2(20, Len(prev))
                        IN  out[i].context_before =
                                Some(Join(<<" ">>, [k \in 1..n |-> prev[Len(prev) - n + k]]))
                /\ IF i = Len(out) THEN out[i].context_after = None
                   ELSE LET next == Split(out[i + 1].text)
                            n == Min2(20, Len(next))
                        IN  out[i].context_after =
                                Some(Join(<<" ">>, [k \in 1..n |-> next[k]]))

\* optimize has returned a chunk that follows one of more than 20 words and
\* precedes one of fewer than 20
C10_Witness ==
    /\ Len(returned) > 0
    /\ \E i \in 2..(Len(returned[1]) - 1) :
           /\ Len(Split(returned[1][i - 1].text)) > 20
           /\ Len(Split(returned[1][i].context_before[1])) = 20
           /\ Len(Split(returned[1][i + 1].text)) < 20
           /\ returned[1][i].context_after = Some(returned[1][i + 1].text)

---------------------------------------------------------------------------
(* _calculate_quality_score applied to a chunk on its own *)

ConfSteps == 10

MaxWords == 201

QualityArgs ==
    {[confidence |-> Rat(n, ConfSteps), word_count |-> w] :
        n \in 0..ConfSteps, w \in 0..MaxWords}

InitQuality ==
    /\ arg \in QualityArgs
    /\ ret = Zero
    /\ pc = "quality_call"
    /\ result = << >>
    /\ chunking_strategy = << >>
    /\ base_chunks = << >>
    /\ rag_chunks = << >>
    /\ returned = << >>
    /\ frame = NoFrame

ScoreQuality ==
    /\ pc = "quality_call"
    /\ ret' = _calculate_quality_score(arg)
    /\ pc' = "quality_ret"
    /\ UNCHANGED <<result, chunking_strategy, base_chunks, rag_chunks, returned, frame, arg>>

NextQuality == ScoreQuality

SpecQuality == InitQuality /\ [][NextQuality]_vars

\* C6: quality_score = min(1, confidence * (0.7 if word_count < 10) *
\* (0.6 if confidence < 0.5) * (1.1 if 50 <= word_count <= 200)); confidence 0.9
\* with word_count 5 gives 0.63.
C6_QualityFormula ==
    pc = "quality_ret"
        => LET c == arg.confidence
               w == arg.word_count
               short == IF w < 10 THEN 7 ELSE 10
               low == IF 2 * c.n < c.d THEN 6 ELSE 10
               bonus == IF 50 <= w /\ w <= 200 THEN 11 ELSE 10
               n == c.n * short * low * bonus
               d == c.d * 1000
           IN  /\ IF n > d THEN ret.n = ret.d ELSE ret.n * d = n * ret.d
               /\ (c = Rat(9, 10) /\ w = 5) => ret = Rat(63, 100)

\* a short chunk of low confidence has been scored with both penalties
C6_Witness ==
    /\ pc = "quality_ret"
    /\ arg.word_count < 10
    /\ arg.confidence = Rat(2, 5)
    /\ ret = Rat(21, 125)

---------------------------------------------------------------------------
(* SemanticChunking.chunk, one loop iteration at a time *)

\* the semantic strategies of Strategies and one whose target_size is below its
\* min_size (__init__, lines 252-255, takes the three sizes as they come)
SemanticStrategies ==
    {st \in Strategies : st.kind = "semantic"} \cup {SemanticStrategy(2, 4, 100)}

\* a transcript whose first segment stops in the middle of a sentence
MidSentenceSegments ==
    <<Segment(2, 3, <<"Y", "e", "s", ".", " ", "W", "e">>, Rat(1, 1)),
      Segment(4, 5, <<"g", "o", ".">>, Rat(1, 1))>>

SemanticResults ==
    Results \cup {[text |-> JoinedText(MidSentenceSegments),
                   segments |-> MidSentenceSegments, file_path |-> FilePath]}

InitSemantic ==
    /\ result \in SemanticResults
    /\ chunking_strategy \in SemanticStrategies
    /\ pc = "semantic_call"
    /\ frame = NoFrame
    /\ ret = << >>
    /\ arg = << >>
    /\ base_chunks = << >>
    /\ rag_chunks = << >>
    /\ returned = << >>

\* chunk, lines 268-275
SemanticEnter ==
    /\ pc = "semantic_call"
    /\ IF Len(result.segments) = 0
       THEN /\ ret' = << >>
            /\ pc' = "semantic_ret"
            /\ UNCHANGED frame
       ELSE /\ frame' = [i |-> 1, chunks |-> << >>, current_segments |-> << >>,
                         current_chars |-> 0]
            /\ pc' = "semantic_loop"
            /\ UNCHANGED ret
    /\ UNCHANGED <<result, chunking_strategy, base_chunks, rag_chunks, returned, arg>>

\* chunk, lines 277-303: the iteration for the segment at position frame.i; arg
\* holds the group of the latest call of _create_chunk_from_segments, and the
\* call's ValueError (lines 344-345) leaves chunk
SemanticIter ==
    /\ pc = "semantic_loop"
    /\ frame.i <= Len(result.segments)
    /\ LET flushes == SemanticFlushes(frame, result.segments, frame.i,
                                      chunking_strategy.target_size,
                                      chunking_strategy.min_size,
                                      chunking_strategy.max_size)
           st == SemanticStep(frame, result.segments, frame.i,
                              chunking_strategy.target_size, chunking_strategy.min_size,
                              chunking_strategy.max_size)
       IN  IF flushes /\ _create_chunk_from_segments(frame.current_segments,
                                                     result.segments) = ValueError
           THEN /\ arg' = Some(frame.current_segments)
                /\ pc' = "semantic_raised"
                /\ UNCHANGED frame
           ELSE /\ arg' = IF flushes THEN Some(frame.current_segments) ELSE arg
                /\ frame' = [i |-> frame.i + 1, chunks |-> st.chunks,
                              current_segments |-> st.current_segments,
                              current_chars |-> st.current_chars]
                /\ UNCHANGED pc
    /\ UNCHANGED <<result, chunking_strategy, base_chunks, rag_chunks, returned, ret>>

\* chunk, lines 305-310
SemanticExit ==
    /\ pc = "semantic_loop"
    /\ frame.i > Len(result.segments)
    /\ arg' = IF Len(frame.current_segments) > 0
              THEN Some(frame.current_segments) ELSE arg
    /\ ret' = _add_overlap(SemanticFinal(frame, result.segments))
    /\ pc' = "semantic_ret"
    /\ UNCHANGED <<result, chunking_strategy, base_chunks, rag_chunks, returned, frame>>

NextSemantic == SemanticEnter \/ SemanticIter \/ SemanticExit

SpecSemantic == InitSemantic /\ [][NextSemantic]_vars

\* the segment at position i starts more than 2.0 seconds after the one before it ends
PauseBefore(segments, i) ==
    i > 1 /\ segments[i].start - segments[i - 1].end > 2

\* C8: when the loop examines a segment i > 0 that starts more than 2.0 s after
\* segment i-1 ends while the pending character count is >= min_size, it closes
\* the pending group (which ends with segment i-1) as a chunk and segment i
\* starts the next group.
C8_PauseBreak ==
    [][(/\ pc = "semantic_loop"
        /\ frame.i <= Len(result.segments)
        /\ PauseBefore(result.segments, frame.i)
        /\ frame.current_chars >= chunking_strategy.min_size)
       => /\ frame'.current_segments = <<result.segments[frame.i]>>
          /\ Len(frame'.chunks) = Len(frame.chunks) + 1
          /\ LET closed == frame'.chunks[Len(frame'.chunks)]
             IN  /\ closed.end_time = result.segments[frame.i - 1].end
                 /\ (frame.i - 1) \notin IndexSet(closed)]_vars

\* a segment without any topic word has started a new group after a pause, the
\* group before it having reached a positive min_size
C8_Witness ==
    /\ pc = "semantic_loop"
    /\ frame.i > 2
    /\ PauseBefore(result.segments, frame.i - 1)
    /\ ~ \E keyword \in topic_shift_keywords :
             Contains(Lower(result.segments[frame.i - 1].text), keyword)
    /\ chunking_strategy.min_size > 0
    /\ chunking_strategy.max_size > 20
    /\ chunking_strategy.target_size > 20
    /\ frame.current_segments = <<result.segments[frame.i - 1]>>
    /\ Len(frame.chunks) > 0
    /\ frame.chunks[Len(frame.chunks)].char_count >= chunking_strategy.min_size


\* the iteration at hand closes the pending group as a chunk
Flushes ==
    /\ pc = "semantic_loop"
    /\ frame.i <= Len(result.segments)
    /\ Len(frame'.chunks) = Len(frame.chunks) + 1

\* C18: the pending group is flushed before segment i only if the pending
\* character count is >= min_size, or the pending count plus the length of
\* segment i exceeds max_size, whatever target_size, min_size and max_size are.
C18_MinimumFloor ==
    [][Flushes
       => \/ frame.current_chars >= chunking_strategy.min_size
          \/ frame.current_chars + Len(Strip(result.segments[frame.i].text))
                 > chunking_strategy.max_size]_vars

\* C19: _is_natural_break reports a natural break at segment i (i > 0) whenever
\* the text of segment i-1 ends with '?'.
C19_QuestionBreak ==
    (/\ pc = "semantic_loop"
     /\ frame.i <= Len(result.segments)
     /\ frame.i > 1
     /\ EndsWithChar(Strip(result.segments[frame.i - 1].text), "?"))
    => _is_natural_break(result.segments[frame.i], result.segments, frame.i - 1)

\* should_break for the very first segment, the pending group being empty
FirstSegmentBreaks ==
    /\ Len(result.segments) > 0
    /\ SemanticShouldBreak([chunks |-> << >>, current_segments |-> << >>,
                            current_chars |-> 0],
                           result.segments, 1, chunking_strategy.target_size,
                           chunking_strategy.min_size, chunking_strategy.max_size)

\* C20: in every execution of chunk(), _create_chunk_from_segments is only
\* called with a non-empty group, so its ValueError is never raised, also when
\* the very first segment satisfies a break condition.
C20_NoEmptyGroup ==
    /\ pc # "semantic_raised"
    /\ arg # None => Len(arg[1]) > 0

\* chunk() has returned its chunks for a segment list whose first segment
\* satisfied a break condition
C20_Witness ==
    /\ pc = "semantic_ret"
    /\ FirstSegmentBreaks
    /\ arg # None
    /\ Len(ret) > 1

\* the segment_indices of the chunks, one after the other
RECURSIVE AllIndices(_)
AllIndices(chunks) ==
    IF Len(chunks) = 0 THEN << >>
    ELSE chunks[1].segment_indices \o AllIndices(Tail(chunks))

PairwiseDistinct(segments) ==
    \A a \in 1..Len(segments) : \A b \in 1..Len(segments) :
        segments[a] = segments[b] => a = b

\* C26: for a non-empty list of pairwise distinct segments, the segment_indices of
\* the returned chunks, taken in order, are exactly 0..n-1: each chunk holds a run
\* of consecutive indices and every segment belongs to exactly one chunk.
C26_SegmentPartition ==
    (/\ pc = "semantic_ret"
     /\ Len(result.segments) > 0
     /\ PairwiseDistinct(result.segments))
    => AllIndices(ret) = [k \in 1..Len(result.segments) |-> k - 1]

\* chunk() has returned several chunks, one of several segments, for three
\* distinct segments
C26_Witness ==
    /\ pc = "semantic_ret"
    /\ Len(result.segments) = 3
    /\ PairwiseDistinct(result.segments)
    /\ Len(ret) = 2
    /\ Len(ret[1].segment_indices) = 2

\* C27: every returned chunk that holds two or more segments has
\* char_count <= max_size.
C27_SizeCeiling ==
    pc = "semantic_ret"
        => \A k \in 1..Len(ret) :
               Len(ret[k].segment_indices) >= 2
                   => ret[k].char_count <= chunking_strategy.max_size

\* the iteration at hand flushes the pending group for the reached target_size
\* alone: the segment is no natural break and the ceiling is not exceeded
FlushesForTargetOnly ==
    /\ Flushes
    /\ ~_is_natural_break(result.segments[frame.i], result.segments, frame.i - 1)
    /\ frame.current_chars + Len(Strip(result.segments[frame.i].text))
           <= chunking_strategy.max_size

\* C28: whenever a group is flushed only because the accumulated count has
\* reached target_size, the last segment of the flushed chunk ends in '.', '!'
\* or '?'.
C28_TargetBreakEndsSentence ==
    [][FlushesForTargetOnly
       => _is_sentence_end(
              frame.current_segments[Len(frame.current_segments)].text)]_vars
---------------------------------------------------------------------------
(* FixedSizeChunking.chunk, one window at a time *)

MaxFixedSegs == 2

MaxChunkSize == 6

MaxOverlap == 3

FixedResults == {r \in Results : Len(r.segments) <= MaxFixedSegs}

InitFixed ==
    /\ result \in FixedResults
    /\ chunking_strategy \in
           {FixedStrategy(c, o) : c \in 1..MaxChunkSize, o \in 0..MaxOverlap}
    /\ pc = "fixed_call"
    /\ frame = NoFrame
    /\ ret = << >>
    /\ arg = << >>
    /\ base_chunks = << >>
    /\ rag_chunks = << >>
    /\ returned = << >>

\* chunk, lines 96-103
FixedEnter ==
    /\ pc = "fixed_call"
    /\ IF Len(result.text) = 0 \/ Len(result.segments) = 0
       THEN /\ ret' = << >>
            /\ pc' = "fixed_ret"
            /\ UNCHANGED frame
       ELSE /\ frame' = [start_pos |-> 0, end_pos |-> 0, chunks |-> << >>]
            /\ pc' = "fixed_test"
            /\ UNCHANGED ret
    /\ UNCHANGED <<result, chunking_strategy, base_chunks, rag_chunks, returned, arg>>

\* chunk, lines 105-112 (and 137 when the loop condition fails)
FixedWindow ==
    /\ pc = "fixed_test"
    /\ IF frame.start_pos < Len(result.text)
       THEN /\ frame' = [frame EXCEPT !.end_pos =
                             FixedEndPos(result.text, frame.start_pos,
                                         chunking_strategy.chunk_size)]
            /\ pc' = "fixed_emit"
            /\ UNCHANGED ret
       ELSE /\ ret' = _add_overlap(frame.chunks)
            /\ pc' = "fixed_ret"
            /\ UNCHANGED frame
    /\ UNCHANGED <<result, chunking_strategy, base_chunks, rag_chunks, returned, arg>>

\* chunk, lines 114-135 (and 137 after the break)
FixedEmit ==
    /\ pc = "fixed_emit"
    /\ LET chunks == FixedAppend(frame.chunks, result.text, result.segments,
                                 frame.start_pos, frame.end_pos)
           next == FixedNextStart(frame.start_pos, frame.end_pos,
                                  chunking_strategy.overlap)
       IN  /\ frame' = [frame EXCEPT !.chunks = chunks, !.start_pos = next]
           /\ IF next >= frame.end_pos
              THEN ret' = _add_overlap(chunks) /\ pc' = "fixed_ret"
              ELSE pc' = "fixed_test" /\ UNCHANGED ret
    /\ UNCHANGED <<result, chunking_strategy, base_chunks, rag_chunks, returned, arg>>

NextFixed == FixedEnter \/ FixedWindow \/ FixedEmit

SpecFixed == InitFixed /\ [][NextFixed]_vars

\* the positions of control inside FixedSizeChunking.chunk
FixedPositions == {"fixed_call", "fixed_test", "fixed_emit", "fixed_ret"}

\* the interpreter moving on from a position before the return of chunk
FixedRuns ==
    /\ pc \in FixedPositions \ {"fixed_ret"}
    /\ pc' \in FixedPositions

\* chunk() keeps being executed: control does not rest before the return.
\* Every step of NextFixed changes pc and one is enabled at each position
\* before the return, so this is weak fairness of NextFixed, stated on pc
SpecFixedFair == SpecFixed /\ WF_pc(FixedRuns)

\* C17: every iteration moves the window start forward by at least one
\* character, to end - overlap when that is larger than start + 1 and to
\* start + 1 otherwise, and chunk() returns in the end.
C17_FixedTerminates ==
    /\ [][pc = "fixed_emit"
          => /\ frame'.start_pos >= frame.start_pos + 1
             /\ frame'.start_pos =
                    IF frame.end_pos - chunking_strategy.overlap > frame.start_pos + 1
                    THEN frame.end_pos - chunking_strategy.overlap
                    ELSE frame.start_pos + 1]_vars
    /\ <>(pc = "fixed_ret")

\* chunk() has returned several chunks with an overlap as large as the window
C17_Witness ==
    /\ pc = "fixed_ret"
    /\ chunking_strategy.overlap >= chunking_strategy.chunk_size
    /\ Len(ret) > 2

\* the offsets of the periods in text[lo:hi]
PeriodsIn(text, lo, hi) ==
    {p \in lo..(Min2(hi, Len(text)) - 1) : text[p + 1] = "."}

\* C9: a window spans at most chunk_size characters; when start + chunk_size is
\* before the end of the text and the last period in text[start : start + chunk_size]
\* is at an offset > start + chunk_size / 2, the window ends right after that
\* period; otherwise it ends at min(start + chunk_size, len(text)).
C9_WindowEnd ==
    pc = "fixed_emit"
        => LET start == frame.start_pos
               size == chunking_strategy.chunk_size
               periods == PeriodsIn(result.text, start, start + size)
           IN  /\ frame.end_pos - start <= size
               /\ IF /\ start + size < Len(result.text)
                     /\ periods # {}
                     /\ 2 * (SetMax(periods) - start) > size
                  THEN frame.end_pos = SetMax(periods) + 1
                  ELSE frame.end_pos = Min2(start + size, Len(result.text))

\* a window that does not start the text has been cut back to end after a period
C9_Witness ==
    /\ pc = "fixed_emit"
    /\ frame.start_pos > 0
    /\ frame.end_pos < Min2(frame.start_pos + chunking_strategy.chunk_size, Len(result.text))
    /\ result.text[frame.end_pos] = "."


\* full_text.find(segment.text.strip(), text_pos) for the segments from k on, as
\* _find_segments_for_text locates them one after the other
RECURSIVE SegmentStartsFrom(_, _, _, _)
SegmentStartsFrom(segments, k, text_pos, full_text) ==
    IF k > Len(segments) THEN << >>
    ELSE LET segment_start == Find(full_text, Strip(segments[k].text), text_pos)
         IN  <<segment_start>>
             \o SegmentStartsFrom(segments, k + 1,
                                  IF segment_start >= 0
                                  THEN segment_start + Len(segments[k].text)
                                  ELSE text_pos,
                                  full_text)

\* the positions of the segments whose located, non-empty text shares a
\* character offset with [start_pos, end_pos)
OverlappingSegments(segments, start_pos, end_pos, full_text) ==
    LET starts == SegmentStartsFrom(segments, 1, 0, full_text)
    IN  {k \in 1..Len(segments) :
            /\ starts[k] >= 0
            /\ Len(Strip(segments[k].text)) > 0
            /\ starts[k] < end_pos
            /\ starts[k] + Len(Strip(segments[k].text)) > start_pos}

\* C21: for a window [start_pos, end_pos) with non-empty trimmed text, the
\* chunk holds every segment whose text, located by the sequential search,
\* overlaps the window, also a segment that begins before start_pos and
\* extends into the window.
C21_SegmentRecovery ==
    [][(/\ pc = "fixed_emit"
        /\ Len(Strip(Slice(result.text, frame.start_pos, frame.end_pos))) > 0)
       => /\ Len(frame'.chunks) = Len(frame.chunks) + 1
          /\ \A k \in OverlappingSegments(result.segments, frame.start_pos,
                                           frame.end_pos, result.text) :
                 IndexOf(result.segments, result.segments[k])
                     \in IndexSet(frame'.chunks[Len(frame'.chunks)])]_vars

\* C24: for a non-empty text with at least one segment and 0 <= overlap <
\* chunk_size, every character offset of the text lies inside the window of some
\* loop iteration: the first window starts at offset 0, no window starts after
\* the end of the one before it, and the last window ends at the end of the text.
C24_WholeText ==
    /\ [][pc = "fixed_call" /\ pc' = "fixed_test" => frame'.start_pos = 0]_vars
    /\ [][pc = "fixed_emit" => frame'.start_pos <= frame.end_pos]_vars
    /\ []((/\ pc = "fixed_ret"
           /\ Len(result.text) > 0
           /\ Len(result.segments) > 0
           /\ chunking_strategy.overlap < chunking_strategy.chunk_size)
          => frame.end_pos = Len(result.text))

\* C25: once a window has reached the end of the text, the loop emits no chunk
\* for a further window, which would lie inside that window.
C25_NoRedundantTail ==
    [][(/\ pc = "fixed_emit"
        /\ frame.end_pos = Len(result.text)
        /\ pc' = "fixed_test")
       => LET start_pos == frame'.start_pos
              end_pos == FixedEndPos(result.text, start_pos,
                                     chunking_strategy.chunk_size)
          IN  ~ /\ frame.start_pos <= start_pos
                /\ end_pos <= frame.end_pos
                /\ Len(FixedAppend(frame'.chunks, result.text, result.segments,
                                   start_pos, end_pos)) > Len(frame'.chunks)]_vars
---------------------------------------------------------------------------
(* RAGOptimizer.optimize, one statement at a time *)

\* _add_context_links, lines 271-284: the loop body for the chunk at position i
LinkChunk(chunks, i) ==
    [chunks EXCEPT
       ![i] = [@ EXCEPT
                 !.context_before =
                     IF i > 1
                     THEN Some(Join(<<" ">>, LastN(Split(chunks[i - 1].text), context_words)))
                     ELSE @,
                 !.context_after =
                     IF i < Len(chunks)
                     THEN Some(Join(<<" ">>, FirstN(Split(chunks[i + 1].text), context_words)))
                     ELSE @]]

\* the enhancement loop left after its second chunk
EnhanceLoopDoneAfterSecond(i, chunks) == i > Min2(2, Len(chunks))

\* for i, chunk in enumerate(base_chunks) has no chunk left (optimize, line 80)
EnhanceLoopDone(i, chunks) == i > Len(chunks)

InitSequence ==
    /\ result \in FixedResults
    /\ chunking_strategy \in Strategies
    /\ pc = "idle"
    /\ base_chunks = << >>
    /\ rag_chunks = << >>
    /\ returned = << >>
    /\ frame = NoFrame
    /\ arg = << >>
    /\ ret = << >>

\* optimize, line 76: the call of chunking_strategy.chunk
CallStrategy ==
    /\ pc = "idle"
    /\ Len(returned) = 0
    /\ pc' = IF chunking_strategy.kind = "fixed" THEN "fixed_call"
             ELSE IF chunking_strategy.kind = "semantic" THEN "semantic_call"
             ELSE "sentence_call"
    /\ UNCHANGED <<result, chunking_strategy, base_chunks, rag_chunks, returned,
                   frame, arg, ret>>

\* SentenceChunking.chunk, from its call to its return
SentenceCall ==
    /\ pc = "sentence_call"
    /\ ret' = StrategyChunk(chunking_strategy, result)
    /\ pc' = "sentence_ret"
    /\ UNCHANGED <<result, chunking_strategy, base_chunks, rag_chunks, returned,
                   frame, arg>>

\* optimize, lines 76-80: chunk() has returned, the enhancement loop starts
StrategyReturned ==
    /\ pc \in {"fixed_ret", "semantic_ret", "sentence_ret"}
    /\ base_chunks' = ret
    /\ rag_chunks' = NewRagChunks(rag_chunks)
    /\ frame' = [i |-> 1]
    /\ pc' = "enhance_loop"
    /\ UNCHANGED <<result, chunking_strategy, returned, arg, ret>>

\* optimize, lines 80-82: one iteration of the enhancement loop, or its end
EnhanceOne ==
    /\ pc = "enhance_loop"
    /\ IF EnhanceLoopDone(frame.i, base_chunks)
       THEN /\ pc' = "link_loop"
            /\ frame' = [i |-> 1]
            /\ UNCHANGED rag_chunks
       ELSE /\ rag_chunks' = Append(rag_chunks,
                                    _enhance_chunk(base_chunks[frame.i], frame.i - 1, result))
            /\ frame' = [i |-> frame.i + 1]
            /\ UNCHANGED pc
    /\ UNCHANGED <<result, chunking_strategy, base_chunks, returned, arg, ret>>

\* _add_context_links, lines 271-284: one iteration of its loop, or its end
LinkOne ==
    /\ pc = "link_loop"
    /\ IF frame.i > Len(rag_chunks)
       THEN /\ pc' = "return"
            /\ UNCHANGED <<rag_chunks, frame>>
       ELSE /\ rag_chunks' = LinkChunk(rag_chunks, frame.i)
            /\ frame' = [i |-> frame.i + 1]
            /\ UNCHANGED pc
    /\ UNCHANGED <<result, chunking_strategy, base_chunks, returned, arg, ret>>

NextSequence ==
    \/ CallStrategy
    \/ FixedEnter
    \/ FixedWindow
    \/ FixedEmit
    \/ SemanticEnter
    \/ SemanticIter
    \/ SemanticExit
    \/ SentenceCall
    \/ StrategyReturned
    \/ EnhanceOne
    \/ LinkOne
    \/ Return

SpecSequence == InitSequence /\ [][NextSequence]_vars

\* the fields of a RAGChunk other than context_before and context_after
WithoutContext(chunk) ==
    [chunk EXCEPT !.context_before = None, !.context_after = None]

\* some chunk of rag_chunks has a context field written
ContextWritten ==
    \E k \in 1..Len(rag_chunks) :
        rag_chunks[k].context_before # None \/ rag_chunks[k].context_after # None

\* C23: in every execution of optimize, chunk() has returned the complete base
\* sequence before any chunk is enhanced, every RAGChunk has been constructed
\* before _add_context_links writes a context field, and the linking pass
\* changes no field other than context_before and context_after.
C23_Sequencing ==
    /\ [](Len(rag_chunks) > 0
             => /\ pc \in {"enhance_loop", "link_loop", "return", "idle"}
                /\ base_chunks = StrategyChunk(chunking_strategy, result))
    /\ [](ContextWritten
             => /\ pc \in {"link_loop", "return", "idle"}
                /\ Len(rag_chunks) = Len(base_chunks)
                /\ \A k \in 1..Len(rag_chunks) :
                       WithoutContext(rag_chunks[k])
                           = _enhance_chunk(base_chunks[k], k - 1, result))
    /\ [][pc = "link_loop"
            => /\ Len(rag_chunks') = Len(rag_chunks)
               /\ \A k \in 1..Len(rag_chunks) :
                      WithoutContext(rag_chunks'[k]) = WithoutContext(rag_chunks[k])]_vars

\* optimize is about to return three linked chunks
C23_Witness ==
    /\ pc = "return"
    /\ Len(rag_chunks) >= 3
    /\ rag_chunks[2].context_before # None
    /\ rag_chunks[2].context_after # None

\* C30: optimize, with any of the three strategies, leaves result.text, the
\* segment list (length, order and every segment's start, end, text and
\* confidence) and the metadata as they were; the records it writes are the
\* chunk records it has created.
C30_InputUnchanged ==
    [][/\ result'.text = result.text
       /\ Len(result'.segments) = Len(result.segments)
       /\ \A k \in 1..Len(result.segments) : result'.segments[k] = result.segments[k]
       /\ result'.file_path = result.file_path]_vars

\* optimize has returned several chunks whose overlap and context fields are written
C30_Witness ==
    /\ pc = "idle"
    /\ Len(returned) = 1
    /\ Len(returned[1]) >= 2
    /\ Len(result.segments) >= 2
    /\ base_chunks[1].overlap_next # None
    /\ returned[1][2].context_before # None
---------------------------------------------------------------------------
(* ChunkingStrategy._calculate_confidence on its own *)

MaxGroup == 3

\* the groups of segments a strategy hands to _calculate_confidence
ConfidenceGroups == UNION {[1..n -> SegPool] : n \in 1..MaxGroup}

InitConfidence ==
    /\ arg \in ConfidenceGroups
    /\ ret = Zero
    /\ pc = "confidence_call"
    /\ result = << >>
    /\ chunking_strategy = << >>
    /\ base_chunks = << >>
    /\ rag_chunks = << >>
    /\ returned = << >>
    /\ frame = NoFrame

CalculateConfidence ==
    /\ pc = "confidence_call"
    /\ ret' = _calculate_confidence(arg)
    /\ pc' = "confidence_ret"
    /\ UNCHANGED <<result, chunking_strategy, base_chunks, rag_chunks, returned, frame, arg>>

NextConfidence == CalculateConfidence

SpecConfidence == InitConfidence /\ [][NextConfidence]_vars

\* C22: for every non-empty group, _calculate_confidence returns the arithmetic
\* mean of the confidences of all its segments, so the result lies between the
\* smallest and the largest member confidence, also when a member has
\* confidence exactly 0.
C22_MeanConfidence ==
    pc = "confidence_ret"
        => LET all == [k \in 1..Len(arg) |-> arg[k].confidence]
           IN  /\ ret = RatMul(RatSum(all), Rat(1, Len(arg)))
               /\ \E k \in 1..Len(arg) : RatLeq(arg[k].confidence, ret)
               /\ \E k \in 1..Len(arg) : RatLeq(ret, arg[k].confidence)
---------------------------------------------------------------------------
(* RAGOptimizer._extract_keywords on its own *)

MaxKeywordWords == 4

MaxTokens == 12

\* words whose cleaned form is a stop word, a short token, or a token that
\* other spellings share
KeywordWords ==
    {<<"t", "h", "e", ",">>,
     <<"a", "b", "c">>,
     <<"A", "b", "c", ".">>,
     <<"a", "-", "b", "c">>,
     <<"x", ".", "y">>,
     <<"w", "i", "-", "t", "h">>,
     <<"d", "a", "t", "a">>,
     <<"a", "b">>}

ShortTexts ==
    {Join(<<" ">>, ws) : ws \in UNION {[1..n -> KeywordWords] : n \in 0..MaxKeywordWords}}

\* the k-th of MaxTokens different eligible tokens
Token(k) == <<"w", "o">> \o DecimalOf(k)

\* m tokens in cyclic order, from the r-th on
Block(m, r) == [k \in 1..m |-> Token(((r - 1 + k - 1) % MaxTokens) + 1)]

BlockTexts ==
    {Join(<<" ">>, Block(m1, 1) \o Block(m2, r2) \o Block(m3, r3)) :
        m1 \in 0..MaxTokens, m2 \in 0..MaxTokens, r2 \in {1, 4, 9},
        m3 \in {0, 2, MaxTokens}, r3 \in {1, 7}}

InitKeywords ==
    /\ arg \in ShortTexts \cup BlockTexts
    /\ ret = << >>
    /\ pc = "keywords_call"
    /\ result = << >>
    /\ chunking_strategy = << >>
    /\ base_chunks = << >>
    /\ rag_chunks = << >>
    /\ returned = << >>
    /\ frame = NoFrame

ExtractKeywords ==
    /\ pc = "keywords_call"
    /\ ret' = _extract_keywords(arg)
    /\ pc' = "keywords_ret"
    /\ UNCHANGED <<result, chunking_strategy, base_chunks, rag_chunks, returned, frame, arg>>

NextKeywords == ExtractKeywords

SpecKeywords == InitKeywords /\ [][NextKeywords]_vars

\* C11: no returned keyword is a stop word and none has length <= 2, also for
\* words that become a stop word or become short once their punctuation is
\* removed.
C11_KeywordExclusion ==
    pc = "keywords_ret"
        => \A k \in 1..Len(ret) : ret[k] \notin stop_words /\ Len(ret[k]) > 2

\* a keyword was returned for a text that repeats "the," (a stop word once
\* cleaned) or "x.y" (two characters once cleaned)
C11_Witness ==
    /\ pc = "keywords_ret"
    /\ Len(ret) > 0
    /\ \E w \in {<<"t", "h", "e", ",">>, <<"x", ".", "y">>} :
           Cardinality({k \in 1..Len(Split(arg)) : Split(arg)[k] = w}) > 1

\* w is ranked before v: more frequent, or as frequent and first seen earlier
RankedBefore(tokens, w, v) ==
    \/ WordFreq(tokens, w) > WordFreq(tokens, v)
    \/ /\ WordFreq(tokens, w) = WordFreq(tokens, v)
       /\ FirstSeen(tokens, w) < FirstSeen(tokens, v)

\* the eligible tokens that occur more than once
Frequent(tokens) == {w \in SeqRange(tokens) : WordFreq(tokens, w) > 1}

\* C12: the keywords are pairwise distinct tokens that occur more than once,
\* by descending frequency with ties in order of first occurrence; there are
\* min(10, number of such tokens) of them, and every such token left out is
\* ranked after all those returned.
C12_KeywordSelection ==
    pc = "keywords_ret"
        => LET tokens == KeywordTokens(arg)
           IN  /\ Len(ret) = Min2(10, Cardinality(Frequent(tokens)))
               /\ \A k \in 1..Len(ret) : ret[k] \in Frequent(tokens)
               /\ \A i \in 1..Len(ret) : \A j \in (i + 1)..Len(ret) :
                      RankedBefore(tokens, ret[i], ret[j])
               /\ \A w \in Frequent(tokens) \ SeqRange(ret) :
                      \A k \in 1..Len(ret) : RankedBefore(tokens, ret[k], w)

\* more than 10 tokens occur more than once, not all equally often, and 10 are
\* returned, the first of them not the first token of the text
C12_Witness ==
    /\ pc = "keywords_ret"
    /\ Len(ret) = 10
    /\ LET tokens == KeywordTokens(arg)
       IN  /\ Cardinality(Frequent(tokens)) > 10
           /\ WordFreq(tokens, ret[1]) > WordFreq(tokens, ret[10])
           /\ ret[1] # tokens[1]

---------------------------------------------------------------------------
(* optimize on transcripts whose sentences run across segment boundaries *)

MaxOrderSegs == 3

OrderSegPool ==
    {Segment(0, 1, <<"H", "i", ".">>, Rat(1, 1)),
     Segment(2, 3, <<"Y", "e", "s", ".", " ", "W", "e">>, Rat(1, 1)),
     Segment(4, 5, <<"g", "o", ".">>, Rat(1, 1)),
     Segment(8, 9, <<"N", "o", "?">>, Rat(1, 1))}

OrderResults ==
    {[text |-> JoinedText(segs), segments |-> segs, file_path |-> FilePath] :
        segs \in {l \in UNION {[1..n -> OrderSegPool] : n \in 0..MaxOrderSegs} :
                     \A k \in 1..(Len(l) - 1) : l[k].start <= l[k + 1].start}}

OrderStrategies ==
    {SentenceStrategy(1, 1500), SentenceStrategy(5, 1500), SentenceStrategy(2, 8),
     SemanticStrategy(1000, 200, 2000), SemanticStrategy(3, 0, 100)}

InitOrder ==
    /\ result \in OrderResults
    /\ chunking_strategy \in OrderStrategies
    /\ pc = "idle"
    /\ base_chunks = << >>
    /\ rag_chunks = << >>
    /\ returned = << >>
    /\ frame = NoFrame
    /\ arg = << >>
    /\ ret = << >>

SpecOrder == InitOrder /\ [][Next]_vars

\* C13: the chunks of SentenceChunking and of SemanticChunking are in
\* segment-start order: start_time never decreases from a chunk to the next.
C13_ChunkOrder ==
    (Chunked /\ chunking_strategy.kind \in {"sentence", "semantic"})
        => \A i \in 1..(Len(base_chunks) - 1) :
               base_chunks[i].start_time <= base_chunks[i + 1].start_time

---------------------------------------------------------------------------
(* optimize with FixedSizeChunking on a transcript of more than 1000 windows *)

MaxChunks == 1001

\* the text of n digits 0123456789012...
DigitText(n) == [k \in 1..n |-> DigitChars[((k - 1) % 10) + 1]]

ManyPaths == {FilePath, <<"f">>, <<"a", "/", "b", "/">>, <<"a", "_", "1", "/", "c", "_", "2">>}

ManyResults ==
    {[text |-> DigitText(n), segments |-> <<Segment(0, n, DigitText(n), Rat(1, 1))>>,
      file_path |-> p] : n \in 1..3, p \in ManyPaths}
    \cup {[text |-> DigitText(MaxChunks),
           segments |-> <<Segment(0, MaxChunks, DigitText(MaxChunks), Rat(1, 1))>>,
           file_path |-> FilePath]}

InitMany ==
    /\ result \in ManyResults
    /\ chunking_strategy = FixedStrategy(2, 1)
    /\ pc = "idle"
    /\ base_chunks = << >>
    /\ rag_chunks = << >>
    /\ returned = << >>
    /\ frame = NoFrame
    /\ arg = << >>
    /\ ret = << >>

\* optimize, line 76: the call of chunking_strategy.chunk (one call of optimize)
CallChunk ==
    /\ pc = "idle"
    /\ Len(returned) = 0
    /\ pc' = "fixed_call"
    /\ UNCHANGED <<result, chunking_strategy, base_chunks, rag_chunks, returned,
                   frame, arg, ret>>

\* optimize, lines 76-79: the call has returned
ChunkReturned ==
    /\ pc = "fixed_ret"
    /\ base_chunks' = ret
    /\ rag_chunks' = NewRagChunks(rag_chunks)
    /\ pc' = "enhance"
    /\ UNCHANGED <<result, chunking_strategy, returned, frame, arg, ret>>

NextMany ==
    \/ CallChunk
    \/ FixedEnter
    \/ FixedWindow
    \/ FixedEmit
    \/ ChunkReturned
    \/ Enhance
    \/ AddContextLinks
    \/ Return

SpecMany == InitMany /\ [][NextMany]_vars

\* the number that the decimal digits d spell
RECURSIVE DecimalValue(_)
DecimalValue(d) ==
    IF Len(d) = 0 THEN 0
    ELSE 10 * DecimalValue(SubSeq(d, 1, Len(d) - 1))
         + ((CHOOSE k \in 1..10 : DigitChars[k] = d[Len(d)]) - 1)

\* the part of a path after its last "/"
Basename(path) ==
    LET at == {k \in 1..Len(path) : path[k] = "/"}
    IN  IF at = {} THEN path ELSE SubSeq(path, SetMax(at) + 1, Len(path))

\* C14: optimize gives one RAGChunk per base chunk, in the same order; the one
\* at position i (from 0) has the chunk_id <basename>_<i in decimal, padded
\* with zeros to at least 3 digits>, and the chunk_ids of one output are
\* pairwise distinct, also beyond 1000 chunks.
C14_ChunkIdentity ==
    pc \in {"link", "return"}
        => /\ Len(rag_chunks) = Len(base_chunks)
           /\ \A i \in 1..Len(rag_chunks) :
                  LET id == rag_chunks[i].chunk_id
                      base == Basename(result.file_path)
                      digits == SubSeq(id, Len(base) + 2, Len(id))
                  IN  /\ rag_chunks[i].text = base_chunks[i].text
                      /\ SubSeq(id, 1, Len(base) + 1) = base \o <<"_">>
                      /\ \A k \in 1..Len(digits) : IsDigit(digits[k])
                      /\ DecimalValue(digits) = i - 1
                      /\ Len(digits) >= 3
                      /\ Len(digits) > 3 => digits[1] # "0"
           /\ Cardinality({rag_chunks[i].chunk_id : i \in 1..Len(rag_chunks)})
                  = Len(rag_chunks)

\* optimize has enhanced more than 1000 chunks
C14_Witness ==
    /\ pc = "return"
    /\ Len(rag_chunks) > 1000
    /\ rag_chunks[1].text # rag_chunks[2].text

---------------------------------------------------------------------------
(* construction of the formatters *)

MaxSizeArg == 4

\* chunk_size or default
OrDefault(chunk_size, default) ==
    IF chunk_size = None THEN default
    ELSE IF chunk_size[1] = 0 THEN default ELSE chunk_size[1]

\* RAGMarkdownFormatter.__init__: the object built, or the exception raised
RAGMarkdownFormatterInit(name, chunk_size) ==
    IF name = "semantic"
    THEN [kind |-> "RAGMarkdownFormatter",
          rag_optimizer |-> SemanticStrategy(OrDefault(chunk_size, 1000), 200, 2000)]
    ELSE IF name = "sentence"
    THEN [kind |-> "RAGMarkdownFormatter",
          rag_optimizer |-> SentenceStrategy(5, OrDefault(chunk_size, 1500))]
    ELSE IF name = "fixed"
    THEN [kind |-> "RAGMarkdownFormatter",
          rag_optimizer |-> FixedStrategy(OrDefault(chunk_size, 1000), 200)]
    ELSE ValueError

\* MarkdownFormatter.__init__: the object built, or the exception raised
MarkdownFormatterInit(chunk_size, rag_optimized, name) ==
    IF rag_optimized
    THEN LET rag_formatter == RAGMarkdownFormatterInit(name, chunk_size)
         IN  IF rag_formatter = ValueError THEN ValueError
             ELSE [kind |-> "MarkdownFormatter", chunk_size |-> chunk_size,
                   rag_optimized |-> TRUE, chunking_strategy |-> name,
                   rag_formatter |-> Some(rag_formatter)]
    ELSE [kind |-> "MarkdownFormatter", chunk_size |-> chunk_size,
          rag_optimized |-> FALSE, chunking_strategy |-> name,
          rag_formatter |-> None]

KnownStrategyNames == {"semantic", "sentence", "fixed"}

StrategyNames == KnownStrategyNames \cup {"bogus", "", "Semantic", "fixed ", "default"}

ConstructorArgs ==
    {[class |-> c, chunking_strategy |-> name, chunk_size |-> size,
      rag_optimized |-> rag] :
        c \in {"RAGMarkdownFormatter", "MarkdownFormatter"},
        name \in StrategyNames,
        size \in {None} \cup {Some(n) : n \in 0..MaxSizeArg},
        rag \in BOOLEAN}

InitFormatter ==
    /\ arg \in ConstructorArgs
    /\ ret = << >>
    /\ pc = "construct"
    /\ result = << >>
    /\ chunking_strategy = << >>
    /\ base_chunks = << >>
    /\ rag_chunks = << >>
    /\ returned = << >>
    /\ frame = NoFrame

\* RAGMarkdownFormatter(chunking_strategy=..., chunk_size=...)
ConstructRAGMarkdownFormatter ==
    /\ pc = "construct"
    /\ arg.class = "RAGMarkdownFormatter"
    /\ ret' = RAGMarkdownFormatterInit(arg.chunking_strategy, arg.chunk_size)
    /\ pc' = IF ret' = ValueError THEN "raised" ELSE "constructed"
    /\ UNCHANGED <<result, chunking_strategy, base_chunks, rag_chunks, returned, frame, arg>>

\* MarkdownFormatter(chunk_size=..., rag_optimized=..., chunking_strategy=...)
ConstructMarkdownFormatter ==
    /\ pc = "construct"
    /\ arg.class = "MarkdownFormatter"
    /\ ret' = MarkdownFormatterInit(arg.chunk_size, arg.rag_optimized,
                                    arg.chunking_strategy)
    /\ pc' = IF ret' = ValueError THEN "raised" ELSE "constructed"
    /\ UNCHANGED <<result, chunking_strategy, base_chunks, rag_chunks, returned, frame, arg>>

NextFormatter == ConstructRAGMarkdownFormatter \/ ConstructMarkdownFormatter

SpecFormatter == InitFormatter /\ [][NextFormatter]_vars

\* C15: a construction with a strategy name other than "fixed", "sentence" or
\* "semantic" raises ValueError and produces no formatter.
C15_UnknownStrategyRejected ==
    (pc # "construct" /\ arg.chunking_strategy \notin KnownStrategyNames)
        => pc = "raised" /\ ret = ValueError

---------------------------------------------------------------------------
(* RAGOptimizer._extract_entities on its own *)

EntityOpenings ==
    {<<"T", "h", "e", " ", "m", "e", "e", "t", "i", "n", "g", " ", "i", "s", " ", "a", "t">>,
     <<"M", "e", "e", "t", " ", "a", "t">>,
     <<"a", "t">>}

EntityTimes ==
    {<<"3", ":", "0", "0", " ", "P", "M">>,
     <<"3", " ", "P", "M">>,
     <<"1", "5", ":", "0", "0">>,
     <<"3", ":", "0", "0", ":", "1", "5", " ", "a", "m">>}

EntityNames ==
    {<<"w", "i", "t", "h", " ", "J", "o", "h", "n", " ", "S", "m", "i", "t", "h", ",">>,
     <<"w", "i", "t", "h", " ", "T", "h", "e", " ", "B", "o", "s", "s", ",">>,
     <<"w", "i", "t", "h", " ", "j", "o", "h", "n", ",">>}

EntityNumbers ==
    {<<"5", "0", "%", " ", "c", "o", "m", "p", "l", "e", "t", "e", ".">>,
     <<"5", "0", "%">>,
     <<"5", "0", ".", "5", "%", "x">>,
     <<"1", ",", "0", "0", "0", " ", "d", "o", "n", "e", ".">>}

EntityTexts ==
    {Join(<<" ">>, <<a, b, c, d>>) :
        a \in EntityOpenings, b \in EntityTimes, c \in EntityNames, d \in EntityNumbers}

ScenarioText ==
    <<"T", "h", "e", " ", "m", "e", "e", "t", "i", "n", "g", " ", "i", "s", " ", "a", "t", " ", "3", ":", "0", "0", " ", "P", "M", " ", "w", "i", "t", "h", " ", "J", "o", "h", "n", " ", "S", "m", "i", "t", "h", ",", " ", "5", "0", "%", " ", "c", "o", "m", "p", "l", "e", "t", "e", ".">>

InitEntities ==
    /\ arg \in EntityTexts
    /\ ret = << >>
    /\ pc = "entities_call"
    /\ result = << >>
    /\ chunking_strategy = << >>
    /\ base_chunks = << >>
    /\ rag_chunks = << >>
    /\ returned = << >>
    /\ frame = NoFrame

ExtractEntities ==
    /\ pc = "entities_call"
    /\ ret' = _extract_entities(arg)
    /\ pc' = "entities_ret"
    /\ UNCHANGED <<result, chunking_strategy, base_chunks, rag_chunks, returned, frame, arg>>

NextEntities == ExtractEntities

SpecEntities == InitEntities /\ [][NextEntities]_vars

\* the number of entities of the given type and text
EntityCount(entities, type, text) ==
    Cardinality({k \in 1..Len(entities) :
                    entities[k].type = type /\ entities[k].text = text})

\* C16: for the scenario text the entities hold exactly one TIME "3:00 PM",
\* one NUMBER "50%" and one PROPER_NOUN "John Smith", no PROPER_NOUN "The",
\* and every entity's text is the text between its start and end offsets.
C16_EntityScenario ==
    (pc = "entities_ret" /\ arg = ScenarioText)
        => /\ EntityCount(ret, "TIME", <<"3", ":", "0", "0", " ", "P", "M">>) = 1
           /\ EntityCount(ret, "NUMBER", <<"5", "0", "%">>) = 1
           /\ EntityCount(ret, "PROPER_NOUN", <<"J", "o", "h", "n", " ", "S", "m", "i", "t", "h">>) = 1
           /\ EntityCount(ret, "PROPER_NOUN", <<"T", "h", "e">>) = 0
           /\ \A k \in 1..Len(ret) :
                  ret[k].text = Slice(arg, ret[k].start, ret[k].end)

====
